---- MODULE Spec2Model ----
(***************************************************************************)
(* Model of the command orchestration code of unity_ai:                    *)
(*   - smart_invoke            (agent_cli.py): retry wrapper               *)
(*   - CommandDispatcher / SystemHandler / SystemCommands: the router      *)
(*   - GraphAgent              (core/handler_graph.py): the planning loop, *)
(*     the sanitization of its Respond node, and runs called concurrently  *)
(* Each part has its own specification over the shared variable tuple;     *)
(* the variables of the other parts stay at their initial value.           *)
(***************************************************************************)
EXTENDS Integers, Sequences, FiniteSets, TLC

VARIABLES
    \* ---- smart_invoke (agent_cli.py) ----
    si_pc,        \* "idle" | "while" | "try" | "backoff" | "returned" | "raised"
    retries,      \* local variable retries
    si_calls,     \* log of the outcomes of agent.invoke, in call order
    si_sleeps,    \* log of the time.sleep(delay) calls, delay in tenths of a second
    si_result,    \* what smart_invoke gave its caller
    cli_printed,  \* what run_cli printed for that result
    \* ---- CommandDispatcher / SystemHandler / SystemCommands ----
    d_pc,         \* "prompt": waiting for a command | "done": process_command is over
    tools,        \* keys of the tools dict given to SystemCommands
    search_tool,  \* TRUE iff search_tool is not None
    voice_enabled,\* voice_flag_ref["enabled"]
    raw_text,     \* the raw_text of the last process_command call
    handled,      \* what try_handle returned in that call
    tool_calls,   \* the tools invoked during that call, in order
    printed,      \* the messages printed by the router during that call
    bookmark_calls,\* the bookmark handler invoked during that call
    graph_runs,   \* the arguments of GraphAgent.run during that call
    \* ---- GraphAgent (core/handler_graph.py) ----
    g_pc,         \* "idle" or the node the run executes next
    checkpoint,   \* MemorySaver: thread_id -> AgentState (messages, last_parse_status)
    g_thread,     \* thread_id of the current run
    g_input,      \* user_input of the current run
    g_step,       \* supersteps (nodes) executed by the current run
    g_trace,      \* the nodes executed by the current run, in order
    g_llm,        \* the outcomes of the engine calls of the current run
    g_emitted,    \* the messages printed to the user by the current run
    g_result,     \* "none" | "returned" | "escaped": how the last run ended
    \* ---- sanitization of the Respond text, applied to a text and to its output ----
    sn_pc,        \* "off" | "input" | "once" | "twice"
    sn_text,      \* the text given to the sanitization
    sn_once,      \* its output
    sn_twice,     \* the output for that output
    \* ---- concurrent callers of GraphAgent.run ----
    cc_run,       \* caller -> its run: node due next, thread_id, the state the run holds
    cc_store,     \* MemorySaver: thread_id -> the AgentState of the latest checkpoint
    \* ---- BookmarkCommands (core/commands/bookmark_commands.py) ----
    bm_store,     \* the contents of the bookmarks file: alias -> path
    bm_log,       \* the add, remove and clear commands so far, with alias and path
    \* ---- BookmarkStorage and handle_add_logic, called by concurrent tasks ----
    bs_file,      \* the contents of the bookmarks file: alias / path entries
    bs_task,      \* task -> its call of handle_add_logic: position, alias, path, loaded dict
    bs_running,   \* the task the event loop is running, 0 when every task is suspended
    bs_added,     \* the aliases whose add has saved the file
    bs_count,     \* the calls of handle_add_logic so far
    \* ---- listen_for_voice (core/voice_listener.py) ----
    vl_pc,        \* "while" | "transcribing" | "processing" | "exited" | "failed"
    vl_enabled,   \* voice_flag_ref["enabled"]
    vl_heard,     \* what the last transcription gave
    vl_passed,    \* the commands given to process_command_fn, in order
    \* ---- run_cli (agent_cli.py) ----
    rc_pc,        \* "input": at the prompt | "ended": after break | "raised"
    reflection_agent,      \* TRUE iff run_cli was given a reflection agent
    fact_sheet_retriever,  \* TRUE iff run_cli was given a retriever
    using_factsheet_mode,  \* local variable using_factsheet_mode
    rc_events     \* per input: the input, the mode before and after, what was called

siVars == <<si_pc, retries, si_calls, si_sleeps, si_result, cli_printed>>

rtVars == <<d_pc, tools, search_tool, voice_enabled, raw_text, handled,
            tool_calls, printed, bookmark_calls, graph_runs>>

gVars == <<g_pc, checkpoint, g_thread, g_input, g_step, g_trace, g_llm,
           g_emitted, g_result>>

snVars == <<sn_pc, sn_text, sn_once, sn_twice>>

\* the variables outside smart_invoke, outside the router, outside GraphAgent.run
ccVars == <<cc_run, cc_store>>

bmVars == <<bm_store, bm_log>>

\* the variables of the parts below the planning loop
bsVars == <<bs_file, bs_task, bs_running, bs_added, bs_count>>

vlVars == <<vl_pc, vl_enabled, vl_heard, vl_passed>>

rcVars == <<rc_pc, reflection_agent, fact_sheet_retriever, using_factsheet_mode,
            rc_events>>

laterVars == <<bmVars, bsVars, vlVars, rcVars>>

\* the variables of smart_invoke, the router and GraphAgent
earlierVars == <<siVars, rtVars, gVars, snVars, ccVars>>

notInvokeVars == <<rtVars, gVars, snVars, ccVars, laterVars>>

notRouterVars == <<siVars, gVars, snVars, ccVars, laterVars>>

notGraphVars == <<siVars, rtVars, snVars, ccVars, laterVars>>

notSanitizeVars == <<siVars, rtVars, gVars, ccVars, laterVars>>

notSessionVars == <<siVars, rtVars, gVars, snVars, laterVars>>

notBookmarkVars == <<earlierVars, bsVars, vlVars, rcVars>>

notStorageVars == <<earlierVars, bmVars, vlVars, rcVars>>

notVoiceVars == <<earlierVars, bmVars, bsVars, rcVars>>

notCliVars == <<earlierVars, bmVars, bsVars, vlVars>>

vars == <<earlierVars, laterVars>>

(***************************************************************************)
(* smart_invoke                                                            *)
(***************************************************************************)

MAX_RETRIES == 5

base_delay == 2

\* random.random() is in [0, 1): the jitter in tenths of a second.
Jitters == {0, 9}

\* 2 ** n
RECURSIVE Pow2(_)
Pow2(n) == IF n = 0 THEN 1 ELSE 2 * Pow2(n - 1)

\* str(e) of the exceptions the engine raises, as character sequences.
ErrorTexts ==
    { <<"4", "2", "9">>,
      <<"x", "4", "2", "9", "x">>,
      <<"4", "2", "x", "9">>,
      <<"4", "2">>,
      <<"x">>,
      <<>> }

ErrorTypes == {"RuntimeError", "ValueError"}

SuccessValues == {"v1", "v2"}

NoText == <<>>

TooManyRetriesText == <<"T", "o", "o", " ", "m", "a", "n", "y">>

\* The outcomes of one agent.invoke({"input": user_input}) call.
InvokeOutcomes ==
    [kind : {"ok"}, type : {"none"}, text : {NoText}, value : SuccessValues]
    \cup
    [kind : {"err"}, type : ErrorTypes, text : ErrorTexts, value : {"none"}]

\* "429" in str(e)
IsRateLimitMut(text) ==
    \E i \in 1..Len(text) : text[i] = "4"

IsRateLimit(text) ==
    \E i \in 1..(Len(text) - 2) :
        text[i] = "4" /\ text[i + 1] = "2" /\ text[i + 2] = "9"

\* while retries < MAX_RETRIES
RetryCondMut(r) == r <= MAX_RETRIES

RetryCond(r) == r < MAX_RETRIES

\* delay = base_delay * (2 ** retries) + random.random(), in tenths
DelayMut(r, jitter) == 10 * base_delay * (r + 1) + jitter

Delay(r, jitter) == 10 * base_delay * Pow2(r) + jitter

NoResult == [kind |-> "none", type |-> "none", text |-> NoText, value |-> "none"]

\* The caller (run_cli) calls smart_invoke: retries = 0, base_delay = 2.
SmartInvoke ==
    /\ si_pc = "idle"
    /\ si_pc' = "while"
    /\ retries' = 0
    /\ si_calls' = <<>>
    /\ si_sleeps' = <<>>
    /\ si_result' = NoResult
    /\ cli_printed' = <<>>
    /\ UNCHANGED <<notInvokeVars>>

\* The loop test, and the raise RuntimeError(...) after the loop.
WhileTest ==
    /\ si_pc = "while"
    /\ IF RetryCond(retries)
       THEN /\ si_pc' = "try"
            /\ si_result' = si_result
       ELSE /\ si_pc' = "raised"
            /\ si_result' = [kind |-> "raise", type |-> "RuntimeError",
                             text |-> TooManyRetriesText, value |-> "none"]
    /\ UNCHANGED <<retries, si_calls, si_sleeps, cli_printed, notInvokeVars>>

\* What follows an ok outcome: return agent.invoke(...)
AfterOkMut(o) == "while"

AfterOk(o) == "returned"

\* What follows an exception that is not a rate limit: raise
AfterOtherErrMut(o) == "backoff"

AfterOtherErr(o) == "raised"

\* What follows a rate-limit exception: the sleep, then retries += 1
AfterRateLimitMut(o) == IF retries + 1 < MAX_RETRIES THEN "backoff" ELSE "raised"

AfterRateLimit(o) == "backoff"

\* try: return agent.invoke(...)  except Exception as e: ...
AgentInvoke ==
    /\ si_pc = "try"
    /\ \E o \in InvokeOutcomes :
         /\ si_calls' = Append(si_calls, o)
         /\ IF o.kind = "ok"
            THEN /\ si_pc' = AfterOk(o)
                 /\ si_result' = [kind |-> "return", type |-> "none",
                                  text |-> NoText, value |-> o.value]
            ELSE IF IsRateLimit(o.text)
            THEN /\ si_pc' = AfterRateLimit(o)
                 /\ si_result' = si_result
            ELSE /\ si_pc' = AfterOtherErr(o)
                 /\ si_result' = [kind |-> "raise", type |-> o.type,
                                  text |-> o.text, value |-> "none"]
    /\ UNCHANGED <<retries, si_sleeps, cli_printed, notInvokeVars>>

\* time.sleep(delay); retries += 1
Backoff ==
    /\ si_pc = "backoff"
    /\ \E j \in Jitters :
         si_sleeps' = Append(si_sleeps, Delay(retries, j))
    /\ retries' = retries + 1
    /\ si_pc' = "while"
    /\ UNCHANGED <<si_calls, si_result, cli_printed, notInvokeVars>>

\* What run_cli prints for the result of smart_invoke: the reply for a
\* returned response, "Unity: {e}" in except RuntimeError, and
\* "Unity: Unexpected error -> {e}" in except Exception.
RunCliPrintMut(result) ==
    IF result.kind = "return"
    THEN <<"Unity: reply">>
    ELSE <<"Unity: ">> \o TooManyRetriesText

RunCliPrint(result) ==
    IF result.kind = "return"
    THEN <<"Unity: reply">>
    ELSE IF result.type = "RuntimeError"
    THEN <<"Unity: ">> \o result.text
    ELSE <<"Unity: Unexpected error -> ">> \o result.text

\* smart_invoke has returned or raised; run_cli prints and goes on to the
\* next input.
SmartInvokeExit ==
    /\ si_pc \in {"returned", "raised"}
    /\ si_pc' = "idle"
    /\ cli_printed' = RunCliPrint(si_result)
    /\ UNCHANGED <<retries, si_calls, si_sleeps, si_result, notInvokeVars>>


(***************************************************************************)
(* Router: text of a command                                               *)
(*                                                                         *)
(* A command text is a sequence of words and the style of the whitespace   *)
(* around them: "single" is one blank between words, "wide" is runs of     *)
(* blanks and tabs between the words and around the text.                  *)
(***************************************************************************)

MaxWords == 3

Words ==
    { "open", "Open", "website", "close", "weather", "in", "search",
      "zira", "bookmark", "add", "list", "jump", "remove", "clear",
      "ad", "xyz", "help",
      "enable", "disable", "voice", "mode",
      "https://Ex.com", "https://a;b", "notepad", "a;b" }

GapStyles == {"single", "wide"}

WordSeqs == UNION { [1..n -> Words] : n \in 1..MaxWords }

RawTexts == [words : WordSeqs, gaps : GapStyles]

\* str.lower() of a word
Lower(w) ==
    CASE w = "Open" -> "open"
      [] w = "https://Ex.com" -> "https://ex.com"
      [] OTHER -> w

LowerSeq(ws) == [i \in 1..Len(ws) |-> Lower(ws[i])]

\* the word begins with the literal http:// or https://
StartsWithHttp(w) == w \in {"https://Ex.com", "https://ex.com", "https://a;b"}

\* len(word)
WordLen(w) ==
    CASE w \in {"https://Ex.com", "https://ex.com"} -> 14
      [] w = "https://a;b" -> 11
      [] w \in {"in", "ad"} -> 2
      [] w \in {"add", "xyz", "a;b"} -> 3
      [] w \in {"open", "Open", "zira", "help", "mode", "list", "jump"} -> 4
      [] w \in {"close", "voice", "clear"} -> 5
      [] w \in {"search", "enable", "remove"} -> 6
      [] w \in {"website", "weather", "disable", "notepad"} -> 7
      [] OTHER -> 8

\* any(c in name for c in [';', '&', '|', '$', '`', '<', '>'])
HasShellChar(ws) == \E i \in 1..Len(ws) : ws[i] \in {"a;b", "https://a;b"}

\* re.sub(r"\s+", " ", text).strip()
NormalizeMut(text) == text

Normalize(text) == [text EXCEPT !.gaps = "single"]

\* text.split()
Split(text) == text.words

\* ws[k:] of a word list
Rest(ws, k) == SubSeq(ws, k, Len(ws))

(***************************************************************************)
(* Router: SystemCommands                                                  *)
(***************************************************************************)

ToolKeys == {"open_website", "open_application", "close_application", "get_weather"}

MAX_URL_LENGTH == 2083

\* What a handler of SystemCommands gives back: its return value, the tools
\* it invoked (in order) and the messages it printed.
HandlerResult(ret, calls, out) == [ret |-> ret, calls |-> calls, out |-> out]

NoMatch == HandlerResult(FALSE, <<>>, <<>>)

\* SystemCommands._invoke_tool; outcome is what the tool does when run.
InvokeToolMut(registry, tool_key, arg, outcome, error_prefix) ==
    IF tool_key \notin registry
    THEN HandlerResult(TRUE, <<>>, <<"Unrecognized tool.">>)
    ELSE IF outcome = "ok"
    THEN HandlerResult(TRUE,
            <<[tool |-> tool_key, arg |-> arg, outcome |-> "ok"]>>, <<"result">>)
    ELSE HandlerResult(TRUE,
            <<[tool |-> tool_key, arg |-> arg, outcome |-> "raise"]>>, <<error_prefix>>)

InvokeTool(registry, tool_key, arg, outcome, error_prefix) ==
    IF tool_key \notin registry
    THEN HandlerResult(FALSE, <<>>, <<"Unrecognized tool.">>)
    ELSE IF outcome = "ok"
    THEN HandlerResult(TRUE,
            <<[tool |-> tool_key, arg |-> arg, outcome |-> "ok"]>>, <<"result">>)
    ELSE HandlerResult(FALSE,
            <<[tool |-> tool_key, arg |-> arg, outcome |-> "raise"]>>, <<error_prefix>>)

\* _WEBSITE_REGEX = ^open\s+website\s+(https?://\S+)$   (IGNORECASE)
WebsiteMatch(ws) ==
    /\ Len(ws) = 3
    /\ Lower(ws[1]) = "open"
    /\ Lower(ws[2]) = "website"
    /\ StartsWithHttp(Lower(ws[3]))

\* SystemCommands.handle_open_website
HandleOpenWebsite(registry, text, outcome) ==
    LET ws == Split(Normalize(text)) IN
    IF ~WebsiteMatch(ws) THEN NoMatch
    ELSE IF WordLen(ws[3]) > MAX_URL_LENGTH
    THEN HandlerResult(TRUE, <<>>, <<"That URL is too long to open safely.">>)
    ELSE InvokeTool(registry, "open_website", <<ws[3]>>, outcome,
                    "Sorry, I couldn't open the website")

\* _APP_REGEX = ^open\s+(.+)$   (IGNORECASE)
AppMatch(ws) == Len(ws) >= 2 /\ Lower(ws[1]) = "open"

\* SystemCommands.handle_open_application
HandleOpenApplication(registry, text, outcome) ==
    LET ws == Split(Normalize(text))
        app_name == Rest(ws, 2)
    IN
    IF ~AppMatch(ws) THEN NoMatch
    ELSE IF StartsWithHttp(app_name[1]) THEN NoMatch
    ELSE IF HasShellChar(app_name)
    THEN HandlerResult(TRUE, <<>>, <<"Invalid application name.">>)
    ELSE InvokeTool(registry, "open_application", app_name, outcome,
                    "Sorry, I couldn't open the application")

\* _CLOSE_REGEX = ^close\s+(.+)$   (IGNORECASE)
CloseMatch(ws) == Len(ws) >= 2 /\ Lower(ws[1]) = "close"

\* SystemCommands.handle_close_application
HandleCloseApplication(registry, text, outcome) ==
    LET ws == Split(Normalize(text))
        app_name == Rest(ws, 2)
    IN
    IF ~CloseMatch(ws) THEN NoMatch
    ELSE IF HasShellChar(app_name)
    THEN HandlerResult(TRUE, <<>>, <<"Invalid application name.">>)
    ELSE InvokeTool(registry, "close_application", app_name, outcome,
                    "Sorry, I couldn't close the application")

\* _WEATHER_REGEX = ^(?:weather(?:\s+in)?\s+)(.+)$   (IGNORECASE)
WeatherMatch(ws) == Len(ws) >= 2 /\ Lower(ws[1]) = "weather"

\* group(1) of _WEATHER_REGEX: the optional "in" is taken when text follows it
WeatherLocation(ws) ==
    IF Len(ws) >= 3 /\ Lower(ws[2]) = "in" THEN Rest(ws, 3) ELSE Rest(ws, 2)

\* SystemCommands.handle_get_weather
HandleGetWeather(registry, text, outcome) ==
    LET ws == Split(Normalize(text)) IN
    IF ~WeatherMatch(ws) THEN NoMatch
    ELSE IF HasShellChar(WeatherLocation(ws))
    THEN HandlerResult(TRUE, <<>>, <<"Invalid location.">>)
    ELSE InvokeTool(registry, "get_weather", WeatherLocation(ws), outcome,
                    "Sorry, I couldn't retrieve weather for")

\* _SEARCH_REGEX = ^search\s+(.+)$   (IGNORECASE)
SearchMatch(ws) == Len(ws) >= 2 /\ Lower(ws[1]) = "search"

\* SystemCommands.handle_search; has_search is "self.search_tool is not None"
HandleSearch(has_search, text, outcome) ==
    LET ws == Split(Normalize(text))
        query == Rest(ws, 2)
    IN
    IF ~SearchMatch(ws) THEN NoMatch
    ELSE IF ~has_search
    THEN HandlerResult(TRUE, <<>>, <<"Search functionality is not available.">>)
    ELSE IF outcome = "ok"
    THEN HandlerResult(TRUE,
            <<[tool |-> "search_tool", arg |-> query, outcome |-> "ok"]>>, <<"result">>)
    ELSE HandlerResult(TRUE,
            <<[tool |-> "search_tool", arg |-> query, outcome |-> "raise"]>>,
            <<"Sorry, I couldn't perform the search.">>)

\* _ENABLE_VOICE_REGEX = ^(?:enable|activate)\s+voice\s+mode$   (IGNORECASE)
EnableVoiceMatch(ws) ==
    /\ Len(ws) = 3
    /\ Lower(ws[1]) \in {"enable", "activate"}
    /\ Lower(ws[2]) = "voice"
    /\ Lower(ws[3]) = "mode"

\* _DISABLE_VOICE_REGEX = ^(?:disable|deactivate|exit)\s+voice\s+mode$
DisableVoiceMatch(ws) ==
    /\ Len(ws) = 3
    /\ Lower(ws[1]) \in {"disable", "deactivate", "exit"}
    /\ Lower(ws[2]) = "voice"
    /\ Lower(ws[3]) = "mode"

(***************************************************************************)
(* Router: difflib.get_close_matches, as SystemHandler.try_handle uses it  *)
(***************************************************************************)

\* The characters of a (lower-cased) word.
Chars(w) ==
    CASE w = "open" -> <<"o", "p", "e", "n">>
      [] w = "website" -> <<"w", "e", "b", "s", "i", "t", "e">>
      [] w = "close" -> <<"c", "l", "o", "s", "e">>
      [] w = "weather" -> <<"w", "e", "a", "t", "h", "e", "r">>
      [] w = "in" -> <<"i", "n">>
      [] w = "search" -> <<"s", "e", "a", "r", "c", "h">>
      [] w = "zira" -> <<"z", "i", "r", "a">>
      [] w = "bookmark" -> <<"b", "o", "o", "k", "m", "a", "r", "k">>
      [] w = "add" -> <<"a", "d", "d">>
      [] w = "ad" -> <<"a", "d">>
      [] w = "xyz" -> <<"x", "y", "z">>
      [] w = "help" -> <<"h", "e", "l", "p">>
      [] w = "enable" -> <<"e", "n", "a", "b", "l", "e">>
      [] w = "disable" -> <<"d", "i", "s", "a", "b", "l", "e">>
      [] w = "voice" -> <<"v", "o", "i", "c", "e">>
      [] w = "mode" -> <<"m", "o", "d", "e">>
      [] w = "https://ex.com" -> <<"h", "t", "t", "p", "s", ":", "/", "/", "e", "x", ".", "c", "o", "m">>
      [] w = "notepad" -> <<"n", "o", "t", "e", "p", "a", "d">>
      [] w = "a;b" -> <<"a", ";", "b">>
      [] w = "https://a;b" -> <<"h", "t", "t", "p", "s", ":", "/", "/", "a", ";", "b">>
      [] w = "list" -> <<"l", "i", "s", "t">>
      [] w = "jump" -> <<"j", "u", "m", "p">>
      [] w = "remove" -> <<"r", "e", "m", "o", "v", "e">>
      [] w = "clear" -> <<"c", "l", "e", "a", "r">>
      [] OTHER -> <<>>

\* The keys of SystemHandler._bookmark_registry, in insertion order.
BookmarkSubcommands == <<"add", "list", "jump", "remove", "clear">>

\* Position of a sub-command in the order of Python's string comparison.
StringRank(w) ==
    CASE w = "add" -> 1 [] w = "clear" -> 2 [] w = "jump" -> 3
      [] w = "list" -> 4 [] OTHER -> 5

SetMax(S) == CHOOSE x \in S : \A y \in S : y <= x

SetMin(S) == CHOOSE x \in S : \A y \in S : x <= y

\* Length of the common run of a[i..] and b[j..] inside [i, ahi) x [j, bhi).
RECURSIVE RunLen(_, _, _, _, _, _)
RunLen(a, b, i, j, ahi, bhi) ==
    IF i < ahi /\ j < bhi /\ a[i] = b[j]
    THEN 1 + RunLen(a, b, i + 1, j + 1, ahi, bhi)
    ELSE 0

\* SequenceMatcher.find_longest_match(alo, ahi, blo, bhi): the longest block,
\* the one starting earliest in a, then earliest in b.
FindLongestMatch(a, b, alo, ahi, blo, bhi) ==
    LET starts == (alo..(ahi - 1)) \X (blo..(bhi - 1))
        size(p) == RunLen(a, b, p[1], p[2], ahi, bhi)
        best == SetMax({size(p) : p \in starts})
        bi == SetMin({p[1] : p \in {q \in starts : size(q) = best}})
        bj == SetMin({p[2] : p \in {q \in starts : q[1] = bi /\ size(q) = best}})
    IN [i |-> bi, j |-> bj, k |-> best]

\* Sum of the sizes of SequenceMatcher.get_matching_blocks()
RECURSIVE MatchCount(_, _, _, _, _, _)
MatchCount(a, b, alo, ahi, blo, bhi) ==
    IF alo >= ahi \/ blo >= bhi THEN 0
    ELSE LET m == FindLongestMatch(a, b, alo, ahi, blo, bhi) IN
         IF m.k = 0 THEN 0
         ELSE m.k + MatchCount(a, b, alo, m.i, blo, m.j)
                  + MatchCount(a, b, m.i + m.k, ahi, m.j + m.k, bhi)

\* Matches(x, word): M of SequenceMatcher(a = x, b = word); ratio = 2M / T
Matches(x, word) ==
    MatchCount(Chars(x), Chars(word), 1, Len(Chars(x)) + 1, 1, Len(Chars(word)) + 1)

Total(x, word) == Len(Chars(x)) + Len(Chars(word))

\* ratio() >= cutoff with cutoff = 0.75, i.e. 2M / T >= 3 / 4
AboveCutoffMut(x, word) == Matches(x, word) >= 1

AboveCutoff(x, word) == 8 * Matches(x, word) >= 3 * Total(x, word)

\* (ratio(x), x) >= (ratio(y), y) as tuples
ScoreGeq(x, y, word) ==
    LET l == Matches(x, word) * Total(y, word)
        r == Matches(y, word) * Total(x, word)
    IN l > r \/ (l = r /\ StringRank(x) >= StringRank(y))

\* get_close_matches(word, valid_subcommands, n=1, cutoff=0.75)
GetCloseMatches(word) ==
    LET close == {BookmarkSubcommands[i] : i \in
                     {k \in 1..Len(BookmarkSubcommands) :
                          AboveCutoff(BookmarkSubcommands[k], word)}}
    IN IF close = {} THEN <<>>
       ELSE <<CHOOSE x \in close : \A y \in close : ScoreGeq(x, y, word)>>

(***************************************************************************)
(* Router: SystemHandler.try_handle and CommandDispatcher.process_command  *)
(***************************************************************************)

ToolOutcomes == {"ok", "raise"}

\* lower in ["zira help", "help zira", "help"]
HelpMatch(ws) ==
    LowerSeq(ws) \in {<<"zira", "help">>, <<"help", "zira">>, <<"help">>}

\* len(parts) >= 2 and parts[0].lower() == "zira" and parts[1].lower() == "bookmark"
BookmarkMatch(ws) ==
    Len(ws) >= 2 /\ Lower(ws[1]) = "zira" /\ Lower(ws[2]) = "bookmark"

\* SystemCommands.handle_enable_voice_mode on a matching input: the flag
\* afterwards and the message printed.
HandleEnableVoiceModeMut(voice) ==
    [voice |-> ~voice, out |-> <<"Voice mode enabled.">>]

HandleEnableVoiceMode(voice) ==
    [voice |-> TRUE,
     out |-> IF voice THEN <<"Voice mode is already enabled.">>
                      ELSE <<"Voice mode enabled.">>]

\* SystemCommands.handle_disable_voice_mode on a matching input.
HandleDisableVoiceMode(voice) ==
    [voice |-> FALSE,
     out |-> IF ~voice THEN <<"Voice mode is already disabled.">>
                       ELSE <<"Voice mode disabled.">>]

\* The result of try_handle: its return value, the tools invoked, the
\* messages printed, the voice flag afterwards and the bookmark handler run.
RouteResult(ret, calls, out, voice, bookmark) ==
    [handled |-> ret, calls |-> calls, out |-> out, voice |-> voice,
     bookmark |-> bookmark]

\* The bookmark branch of try_handle.
BookmarkBranch(ws, calls, out, voice) ==
    IF Len(ws) < 3
    THEN RouteResult(TRUE, calls, out \o <<"Usage:">>, voice, <<>>)
    ELSE LET raw_subcommand == Lower(ws[3])
             matches == GetCloseMatches(raw_subcommand)
         IN IF matches # <<>>
            THEN RouteResult(TRUE, calls,
                     IF matches[1] # raw_subcommand
                     THEN out \o <<"Interpreting">> ELSE out,
                     voice, <<[handler |-> matches[1], parts |-> ws]>>)
            ELSE RouteResult(TRUE, calls, out \o <<"Unknown bookmark command">>,
                             voice, <<>>)

\* SystemHandler.try_handle; env gives, per tool, what the tool does if run.
TryHandle(command_text, voice, registry, has_search, env) ==
    LET text == Normalize(command_text)
        ws == Split(text)
        web == HandleOpenWebsite(registry, text, env["open_website"])
        app == HandleOpenApplication(registry, text, env["open_application"])
        cls == HandleCloseApplication(registry, text, env["close_application"])
        wth == HandleGetWeather(registry, text, env["get_weather"])
        sch == HandleSearch(has_search, text, env["search_tool"])
        c1 == web.calls
        c2 == c1 \o app.calls
        c3 == c2 \o cls.calls
        c4 == c3 \o wth.calls
        c5 == c4 \o sch.calls
        o1 == web.out
        o2 == o1 \o app.out
        o3 == o2 \o cls.out
        o4 == o3 \o wth.out
        o5 == o4 \o sch.out
    IN
    IF EnableVoiceMatch(ws)
    THEN RouteResult(TRUE, <<>>, HandleEnableVoiceMode(voice).out,
                     HandleEnableVoiceMode(voice).voice, <<>>)
    ELSE IF DisableVoiceMatch(ws)
    THEN RouteResult(TRUE, <<>>, HandleDisableVoiceMode(voice).out,
                     HandleDisableVoiceMode(voice).voice, <<>>)
    ELSE IF HelpMatch(ws) THEN RouteResult(TRUE, <<>>, <<"You can say:">>, voice, <<>>)
    ELSE IF web.ret THEN RouteResult(TRUE, c1, o1, voice, <<>>)
    ELSE IF app.ret THEN RouteResult(TRUE, c2, o2, voice, <<>>)
    ELSE IF cls.ret THEN RouteResult(TRUE, c3, o3, voice, <<>>)
    ELSE IF wth.ret THEN RouteResult(TRUE, c4, o4, voice, <<>>)
    ELSE IF sch.ret THEN RouteResult(TRUE, c5, o5, voice, <<>>)
    ELSE IF BookmarkMatch(ws) THEN BookmarkBranch(ws, c5, o5, voice)
    ELSE RouteResult(FALSE, c5, o5, voice, <<>>)

(***************************************************************************)
(* GraphAgent: texts and messages                                          *)
(*                                                                         *)
(* A text is a sequence of tokens: the 'final answer:' marker in one of    *)
(* its letter cases, a blank, a printable character, a character that is   *)
(* not in string.printable, or a fixed message of the program.             *)
(***************************************************************************)

MarkerTokens == {"Final Answer:", "final answer:"}

WhitespaceTokens == {" "}

NonPrintableTokens == {"NUL"}

\* str.lower() of a text
TextLower(t) ==
    [i \in 1..Len(t) |-> IF t[i] \in MarkerTokens THEN "final answer:" ELSE t[i]]

RECURSIVE LStrip(_)
LStrip(t) ==
    IF t # <<>> /\ Head(t) \in WhitespaceTokens THEN LStrip(Tail(t)) ELSE t

RECURSIVE RStrip(_)
RStrip(t) ==
    IF t # <<>> /\ t[Len(t)] \in WhitespaceTokens
    THEN RStrip(SubSeq(t, 1, Len(t) - 1)) ELSE t

\* str.strip()
Strip(t) == RStrip(LStrip(t))

\* contains_control_chars(s): any(ch not in string.printable for ch in s)
ContainsControlCharsMut(t) == FALSE

ContainsControlChars(t) == \E i \in 1..Len(t) : t[i] \in NonPrintableTokens

FinalText == <<"Final Answer:", " ", "a">>

LeadingBlankFinalText == <<" ", "final answer:", "a">>

PlainText == <<"a">>

EmptyText == <<>>

ControlFinalText == <<"Final Answer:", "NUL">>

HumanMessage(content) ==
    [type |-> "human", content |-> content, tool_calls |-> <<>>, tool_call_id |-> 0]

AIMessage(content, calls) ==
    [type |-> "ai", content |-> content, tool_calls |-> calls, tool_call_id |-> 0]

ToolMessage(content, id) ==
    [type |-> "tool", content |-> content, tool_calls |-> <<>>, tool_call_id |-> id]

(***************************************************************************)
(* GraphAgent: the nodes and the conditional edges                         *)
(***************************************************************************)

AGENT_MAX_ITERATIONS == 10

\* New runs start only while the session history has at most this many
\* messages (the history of a session grows without bound in the program).
MaxHistory == 2

ThreadIds == {"default_user"}

\* user_input values of GraphAgent.run
UserInputs == {<<"a">>, <<"a", "NUL">>}

\* names of self.agent_tools, and the names the engine may ask for
AgentToolNames == {"duckduckgo_search", "local_factsheet"}

RequestedToolNames == {"local_factsheet", "no_such_tool"}

EmptyState == [messages |-> <<>>, last_parse_status |-> "unset"]

SyntheticParseError ==
    <<"Error: The agent could not determine a valid tool action or final answer.">>

InvalidInputMessage ==
    <<"Invalid input detected - please use standard characters only.">>

RunErrorMessage ==
    <<"An error occurred while processing your request. Please try again.">>

SanitizedNotice ==
    <<"[Response contained invalid characters and was sanitized.]">>

\* What the engine may answer to a planning call on history msgs: a text
\* without tool calls, or one tool call (with or without text); the call
\* identifier is fresh in the history.
LLMResponses(msgs) ==
    { AIMessage(c, <<>>) :
        c \in {FinalText, LeadingBlankFinalText, PlainText, EmptyText, ControlFinalText} }
    \cup
    { AIMessage(c, <<[id |-> Len(msgs) + 1, name |-> n]>>) :
        c \in {EmptyText, FinalText}, n \in RequestedToolNames }

\* The exceptions self.llm_with_tools.ainvoke may raise.
LLMErrors == {"TooManyRequests", "Exception"}

\* content and str(content).strip().lower().startswith("final answer:")
StartsWithFinalAnswer(t) ==
    /\ t # <<>>
    /\ TextLower(Strip(t)) # <<>>
    /\ Head(TextLower(Strip(t))) = "final answer:"

\* GraphAgent._is_final_answer(state)
IsFinalAnswerMut(msgs) ==
    IF msgs = <<>> THEN "continue"
    ELSE LET last_message == msgs[Len(msgs)] IN
         IF last_message.type = "ai"
            /\ StartsWithFinalAnswer(last_message.content)
         THEN "respond"
         ELSE "continue"

IsFinalAnswer(msgs) ==
    IF msgs = <<>> THEN "continue"
    ELSE LET last_message == msgs[Len(msgs)] IN
         IF last_message.type = "ai" /\ last_message.tool_calls # <<>>
         THEN "continue"
         ELSE IF last_message.type = "ai"
                 /\ StartsWithFinalAnswer(last_message.content)
         THEN "respond"
         ELSE "continue"

\* GraphAgent._parse_and_route_action_node(state)
ParseAndRouteActionMut(state) ==
    [messages |-> state.messages, last_parse_status |-> "tool_call_found"]

ParseAndRouteAction(state) ==
    IF state.messages = <<>>
    THEN [messages |-> <<AIMessage(<<"Error: No LLM output to parse for action.">>, <<>>)>>,
          last_parse_status |-> "respond_with_error"]
    ELSE LET last_message == state.messages[Len(state.messages)] IN
         IF last_message.type = "ai" /\ last_message.tool_calls # <<>>
         THEN [messages |-> state.messages, last_parse_status |-> "tool_call_found"]
         ELSE [messages |-> Append(state.messages, AIMessage(SyntheticParseError, <<>>)),
               last_parse_status |-> "respond_with_error"]

\* The conditional edge after ParseAction:
\* state.get("last_parse_status", "respond_with_error")
ParseActionEdgeMut(state) == "ToolExecutor"

ParseActionEdge(state) ==
    IF state.last_parse_status = "tool_call_found" THEN "ToolExecutor" ELSE "Respond"

\* re.sub(r"(?i)^Final Answer:\s*", "", content)
StripMarker(t) ==
    IF t # <<>> /\ Head(t) \in MarkerTokens THEN LStrip(Tail(t)) ELSE t

\* The text GraphAgent._respond_to_user prints (cleaned).
RespondText(msgs) ==
    IF msgs = <<>> THEN <<"I'm not sure how to respond.">>
    ELSE LET last_message == msgs[Len(msgs)]
             cleaned ==
                 CASE last_message.type = "ai" -> Strip(StripMarker(last_message.content))
                   [] last_message.type = "human" ->
                        <<"I'm experiencing an internal communication issue.">>
                   [] OTHER ->
                        <<"Tool result processed, but no final answer: ">>
                            \o last_message.content
         IN IF ContainsControlChars(cleaned) THEN SanitizedNotice ELSE cleaned

\* langgraph ToolNode for one tool call: the tool message it produces.
\* outcome is what the tool does when it is run.
ToolNodeMessageMut(call, outcome) == ToolMessage(<<"tool result">>, 0)

ToolNodeMessage(call, outcome) ==
    IF call.name \notin AgentToolNames
    THEN ToolMessage(<<"Error: not a valid tool">>, call.id)
    ELSE IF outcome = "ok"
    THEN ToolMessage(<<"tool result">>, call.id)
    ELSE ToolMessage(<<"Error: tool failed">>, call.id)

\* if contains_control_chars(user_input): ... return, at the top of
\* GraphAgent.run: the inputs run() turns away.
RejectsInputMut(user_input) == FALSE

RejectsInput(user_input) == ContainsControlChars(user_input)

\* workflow.add_edge("ToolExecutor", "LLMPlanning")
ToolExecutorEdgeMut == "Respond"

ToolExecutorEdge == "LLMPlanning"

\* workflow.add_edge("Respond", END)
RespondEdgeMut == "LLMPlanning"

RespondEdge == "END"

\* except Exception in GraphAgent.run: the exceptions it catches
CaughtByRunMut(exc) == exc = "ValidationError"

CaughtByRun(exc) ==
    exc \in {"GraphRecursionError", "ValidationError"}

\* messages: Annotated[list[BaseMessage], add_messages]: what a node returns
\* under "messages" is added to the messages the session already has.
AddMessagesMut(left, right) == right

AddMessages(left, right) == left \o right

Messages(t) == checkpoint[t].messages

\* The tasks that await GraphAgent.run at the same time.
Callers == {1, 2}

\* thread_id values of GraphAgent.run: the default and another one
SessionIds == {"default_user", "other_user"}

IdleRun ==
    [pc |-> "idle", thread |-> "none", messages |-> <<>>,
     last_parse_status |-> "unset", step |-> 0, result |-> "none"]

\* There is no bookmarks file and no bookmark command was given.
BookmarksQuiet ==
    /\ bm_store = {}
    /\ bm_log = <<>>

StorageTasks == {1, 2}

\* A task that is not in handle_add_logic.
IdleTask == [pc |-> "idle", alias |-> "", path |-> "", bookmarks |-> {}]

\* There is no bookmarks file of BookmarkStorage and no task uses it.
StorageQuiet ==
    /\ bs_file = {}
    /\ bs_task = [t \in StorageTasks |-> IdleTask]
    /\ bs_running = 0
    /\ bs_added = {}
    /\ bs_count = 0

\* Nothing was transcribed yet.
NothingHeard == [kind |-> "nothing", text |-> <<>>]

\* listen_for_voice was not called.
VoiceQuiet ==
    /\ vl_pc = "exited"
    /\ vl_enabled = FALSE
    /\ vl_heard = NothingHeard
    /\ vl_passed = <<>>

\* run_cli was not called.
CliQuiet ==
    /\ rc_pc = "ended"
    /\ reflection_agent = FALSE
    /\ fact_sheet_retriever = FALSE
    /\ using_factsheet_mode = FALSE
    /\ rc_events = <<>>

\* The parts below the planning loop are at rest.
LaterQuiet == BookmarksQuiet /\ StorageQuiet /\ VoiceQuiet /\ CliQuiet

\* No caller has called GraphAgent.run and the checkpointer is empty.
SessionsQuiet ==
    /\ cc_run = [r \in Callers |-> IdleRun]
    /\ cc_store = [t \in SessionIds |-> EmptyState]

\* No text is being sanitized.
SanitizeQuiet ==
    /\ sn_pc = "off"
    /\ sn_text = <<>>
    /\ sn_once = <<>>
    /\ sn_twice = <<>>

\* smart_invoke is not running.
InvokeQuiet ==
    /\ si_pc = "idle"
    /\ retries = 0
    /\ si_calls = <<>>
    /\ si_sleeps = <<>>
    /\ si_result = NoResult
    /\ cli_printed = <<>>

NoRaw == [words |-> <<>>, gaps |-> "single"]

\* The tools and search_tool arguments a dispatcher is constructed with:
\* every tool present, or none.
Deployments ==
    { [tools |-> ToolKeys, search_tool |-> TRUE],
      [tools |-> {}, search_tool |-> FALSE] }

\* if handled: return  /  await self.graph_agent.run(sanitized)
GraphCallsMut(is_handled, sanitized) == <<sanitized>>

GraphCalls(is_handled, sanitized) ==
    IF is_handled THEN <<>> ELSE <<sanitized>>

\* What the tool of the website, close, weather or search handler may do
\* when it is run: a tool is run only by a handler whose pattern matches.
FirstToolOutcomes(ws) ==
    IF WebsiteMatch(ws) \/ CloseMatch(ws) \/ WeatherMatch(ws) \/ SearchMatch(ws)
    THEN ToolOutcomes ELSE {"ok"}

\* What the open_application tool may do when it is run.
AppToolOutcomes(ws) == IF AppMatch(ws) THEN ToolOutcomes ELSE {"ok"}

\* CommandDispatcher.process_command(raw_text). o1 is what the tool of the
\* website, close, weather or search handler does when it is run (their
\* patterns exclude each other), o2 what the open_application tool does.
ProcessCommand ==
    /\ d_pc = "prompt"
    /\ \E raw \in RawTexts :
         LET sanitized == Normalize(raw) IN
         \E o1 \in FirstToolOutcomes(Split(sanitized)),
            o2 \in AppToolOutcomes(Split(sanitized)) :
           LET env == [k \in ToolKeys \cup {"search_tool"} |->
                          IF k = "open_application" THEN o2 ELSE o1]
               r == TryHandle(sanitized, voice_enabled, tools, search_tool, env)
           IN /\ raw_text' = raw
              /\ voice_enabled' = r.voice
              /\ handled' = r.handled
              /\ tool_calls' = r.calls
              /\ printed' = r.out
              /\ bookmark_calls' = r.bookmark
              /\ graph_runs' = GraphCalls(r.handled, sanitized)
    /\ d_pc' = "done"
    /\ UNCHANGED <<tools, search_tool, notRouterVars>>

\* The caller's loop goes back to its prompt for the next command.
NextPrompt ==
    /\ d_pc = "done"
    /\ d_pc' = "prompt"
    /\ raw_text' = NoRaw
    /\ handled' = FALSE
    /\ tool_calls' = <<>>
    /\ printed' = <<>>
    /\ bookmark_calls' = <<>>
    /\ graph_runs' = <<>>
    /\ UNCHANGED <<tools, search_tool, voice_enabled, notRouterVars>>

\* No command is being processed.
RouterQuiet ==
    /\ d_pc = "prompt"
    /\ tools = ToolKeys
    /\ search_tool = TRUE
    /\ voice_enabled = FALSE
    /\ raw_text = NoRaw
    /\ handled = FALSE
    /\ tool_calls = <<>>
    /\ printed = <<>>
    /\ bookmark_calls = <<>>
    /\ graph_runs = <<>>

\* No run of the graph agent is in progress and no session has a checkpoint.
GraphQuiet ==
    /\ g_pc = "idle"
    /\ checkpoint = [t \in ThreadIds |-> EmptyState]
    /\ g_thread = "none"
    /\ g_input = <<>>
    /\ g_step = 0
    /\ g_trace = <<>>
    /\ g_llm = <<>>
    /\ g_emitted = <<>>
    /\ g_result = "none"

InitRouter ==
    /\ d_pc = "prompt"
    /\ \E d \in Deployments :
         /\ tools = d.tools
         /\ search_tool = d.search_tool
    /\ voice_enabled = FALSE
    /\ raw_text = NoRaw
    /\ handled = FALSE
    /\ tool_calls = <<>>
    /\ printed = <<>>
    /\ bookmark_calls = <<>>
    /\ graph_runs = <<>>
    /\ InvokeQuiet
    /\ GraphQuiet
    /\ SanitizeQuiet
    /\ SessionsQuiet
    /\ LaterQuiet

NextRouter ==
    \/ ProcessCommand
    \/ NextPrompt

SpecRouter == InitRouter /\ [][NextRouter]_vars

InitInvoke ==
    InvokeQuiet /\ RouterQuiet /\ GraphQuiet /\ SanitizeQuiet /\ SessionsQuiet /\ LaterQuiet

\* smart_invoke, the router and GraphAgent are at rest.
EarlierQuiet ==
    InvokeQuiet /\ RouterQuiet /\ GraphQuiet /\ SanitizeQuiet /\ SessionsQuiet

NextInvoke ==
    \/ SmartInvoke
    \/ WhileTest
    \/ AgentInvoke
    \/ Backoff
    \/ SmartInvokeExit

SpecInvoke == InitInvoke /\ [][NextInvoke]_vars

(***************************************************************************)
(* GraphAgent.run: one action per superstep of the compiled graph          *)
(***************************************************************************)

Nodes == {"UserInputProcessor", "LLMPlanning", "ParseAction", "ToolExecutor", "Respond"}

Emitted(kind, text) == [kind |-> kind, text |-> text]

LLMAnswer(message) == [kind |-> "response", message |-> message, error |-> "none"]

LLMFailure(e) == [kind |-> "error", message |-> AIMessage(EmptyText, <<>>), error |-> e]

\* "recursion_limit": the graph executes at most this many supersteps
WithinRecursionLimit(step) == step < AGENT_MAX_ITERATIONS

\* An exception exc leaves the graph while the run has printed em and
\* executed tr: the try / except Exception of GraphAgent.run.
RaiseInRun(exc, em, tr) ==
    /\ g_emitted' = IF CaughtByRun(exc)
                    THEN Append(em, Emitted("run_error", RunErrorMessage))
                    ELSE em
    /\ g_result' = IF CaughtByRun(exc) THEN "returned" ELSE "escaped"
    /\ g_trace' = Append(tr, exc)
    /\ g_pc' = "idle"

\* GraphAgent.run(user_input, thread_id) up to the first superstep: the
\* control-character check, and the input written to the session state.
Run ==
    /\ g_pc = "idle"
    /\ \E user_input \in UserInputs, thread_id \in ThreadIds :
         /\ Len(Messages(thread_id)) <= MaxHistory
         /\ g_input' = user_input
         /\ g_thread' = thread_id
         /\ IF RejectsInput(user_input)
            THEN /\ g_emitted' = <<Emitted("invalid_input", InvalidInputMessage)>>
                 /\ g_result' = "returned"
                 /\ g_pc' = "idle"
                 /\ UNCHANGED checkpoint
            ELSE /\ g_emitted' = <<>>
                 /\ g_result' = "none"
                 /\ g_pc' = "UserInputProcessor"
                 /\ checkpoint' = [checkpoint EXCEPT ![thread_id].messages =
                                       AddMessages(@, <<HumanMessage(user_input)>>)]
    /\ g_step' = 0
    /\ g_trace' = <<>>
    /\ g_llm' = <<>>
    /\ UNCHANGED <<notGraphVars>>

\* GraphAgent._user_input_processor_node: returns the state as it is.
UserInputProcessor ==
    /\ g_pc = "UserInputProcessor"
    /\ WithinRecursionLimit(g_step)
    /\ g_step' = g_step + 1
    /\ g_trace' = Append(g_trace, "UserInputProcessor")
    /\ g_pc' = "LLMPlanning"
    /\ UNCHANGED <<checkpoint, g_thread, g_input, g_llm, g_emitted, g_result,
                   notGraphVars>>

\* GraphAgent._call_llm_node and the conditional edge _is_final_answer.
\* On an exception of the engine the node calls the coroutine function
\* _handle_llm_error without await and builds AIMessage(content=<coroutine>),
\* which the message class rejects: the validation error leaves the node and
\* the step writes nothing.
LLMPlanning ==
    /\ g_pc = "LLMPlanning"
    /\ WithinRecursionLimit(g_step)
    /\ g_step' = g_step + 1
    /\ \/ \E response \in LLMResponses(Messages(g_thread)) :
            LET msgs == AddMessages(Messages(g_thread), <<response>>) IN
            /\ checkpoint' = [checkpoint EXCEPT ![g_thread].messages = msgs]
            /\ g_llm' = Append(g_llm, LLMAnswer(response))
            /\ g_trace' = Append(g_trace, "LLMPlanning")
            /\ g_pc' = IF IsFinalAnswer(msgs) = "respond" THEN "Respond" ELSE "ParseAction"
            /\ UNCHANGED <<g_emitted, g_result>>
       \/ \E e \in LLMErrors :
            /\ g_llm' = Append(g_llm, LLMFailure(e))
            /\ RaiseInRun("ValidationError", g_emitted, Append(g_trace, "LLMPlanning"))
            /\ UNCHANGED checkpoint
    /\ UNCHANGED <<g_thread, g_input, notGraphVars>>

\* GraphAgent._parse_and_route_action_node and the conditional edge on
\* last_parse_status.
ParseAction ==
    /\ g_pc = "ParseAction"
    /\ WithinRecursionLimit(g_step)
    /\ g_step' = g_step + 1
    /\ g_trace' = Append(g_trace, "ParseAction")
    /\ checkpoint' = [checkpoint EXCEPT ![g_thread] = ParseAndRouteAction(@)]
    /\ g_pc' = ParseActionEdge(ParseAndRouteAction(checkpoint[g_thread]))
    /\ UNCHANGED <<g_thread, g_input, g_llm, g_emitted, g_result, notGraphVars>>

\* ToolNode(tools=self.agent_tools): one tool message per tool call of the
\* last message, in the order of the calls; then the edge to LLMPlanning.
ToolExecutor ==
    /\ g_pc = "ToolExecutor"
    /\ WithinRecursionLimit(g_step)
    /\ g_step' = g_step + 1
    /\ g_trace' = Append(g_trace, "ToolExecutor")
    /\ LET msgs == Messages(g_thread)
           calls == msgs[Len(msgs)].tool_calls
       IN \E outs \in [1..Len(calls) -> ToolOutcomes] :
            checkpoint' = [checkpoint EXCEPT ![g_thread].messages =
                AddMessages(msgs,
                    [i \in 1..Len(calls) |-> ToolNodeMessage(calls[i], outs[i])])]
    /\ g_pc' = ToolExecutorEdge
    /\ UNCHANGED <<g_thread, g_input, g_llm, g_emitted, g_result, notGraphVars>>

\* GraphAgent._respond_to_user and the edge to END. When Respond was the
\* last superstep the limit allows, the library either ends the run or
\* reports the limit as reached, depending on its version.
Respond ==
    /\ g_pc = "Respond"
    /\ WithinRecursionLimit(g_step)
    /\ g_step' = g_step + 1
    /\ LET em == Append(g_emitted, Emitted("respond", RespondText(Messages(g_thread))))
           tr == Append(g_trace, "Respond")
       IN \/ /\ g_emitted' = em
             /\ g_trace' = tr
             /\ g_result' = IF RespondEdge = "END" THEN "returned" ELSE g_result
             /\ g_pc' = IF RespondEdge = "END" THEN "idle" ELSE RespondEdge
          \/ /\ ~WithinRecursionLimit(g_step + 1)
             /\ RaiseInRun("GraphRecursionError", em, tr)
    /\ UNCHANGED <<checkpoint, g_thread, g_input, g_llm, notGraphVars>>

\* The next node is due but the recursion limit is used up: the graph
\* raises GraphRecursionError.
RecursionLimit ==
    /\ g_pc \in Nodes
    /\ ~WithinRecursionLimit(g_step)
    /\ RaiseInRun("GraphRecursionError", g_emitted, g_trace)
    /\ UNCHANGED <<checkpoint, g_thread, g_input, g_step, g_llm, notGraphVars>>

InitGraph ==
    /\ g_pc = "idle"
    /\ checkpoint = [t \in ThreadIds |-> EmptyState]
    /\ g_thread = "none"
    /\ g_input = <<>>
    /\ g_step = 0
    /\ g_trace = <<>>
    /\ g_llm = <<>>
    /\ g_emitted = <<>>
    /\ g_result = "none"
    /\ InvokeQuiet
    /\ RouterQuiet
    /\ SanitizeQuiet
    /\ SessionsQuiet
    /\ LaterQuiet

NextGraph ==
    \/ Run
    \/ UserInputProcessor
    \/ LLMPlanning
    \/ ParseAction
    \/ ToolExecutor
    \/ Respond
    \/ RecursionLimit

SpecGraph == InitGraph /\ [][NextGraph]_vars


(***************************************************************************)
(* Properties of smart_invoke                                              *)
(***************************************************************************)

RateLimited(o) == o.kind = "err" /\ IsRateLimit(o.text)

AllRateLimited == \A i \in 1..Len(si_calls) : RateLimited(si_calls[i])

Exhausted ==
    /\ si_result.kind = "raise"
    /\ si_result.type = "RuntimeError"
    /\ si_result.text = TooManyRetriesText

SmartInvokeOver == si_pc \in {"returned", "raised"}

\* C4: when every call to the engine fails with a rate-limit error,
\* smart_invoke makes at most MAX_RETRIES calls, and it ends by raising the
\* 'too many retries' error after exactly MAX_RETRIES calls; that error is
\* raised in no other situation.
C4_ExhaustedAfterMaxRetries ==
    /\ AllRateLimited => Len(si_calls) <= MAX_RETRIES
    /\ (SmartInvokeOver /\ AllRateLimited)
          => (Exhausted /\ Len(si_calls) = MAX_RETRIES)
    /\ (SmartInvokeOver /\ Exhausted)
          => (AllRateLimited /\ Len(si_calls) = MAX_RETRIES)

C4_Witness ==
    /\ si_pc = "raised"
    /\ Exhausted
    /\ AllRateLimited
    /\ Len(si_calls) = MAX_RETRIES

\* The number of calls so far that failed with a rate-limit error.
NumRateLimited ==
    Cardinality({i \in 1..Len(si_calls) : RateLimited(si_calls[i])})

LastCallRateLimited ==
    /\ si_calls # <<>>
    /\ RateLimited(si_calls[Len(si_calls)])

\* C37: in smart_invoke every rate-limit failure, the last one before
\* exhaustion included, is followed by exactly one backoff sleep: the number
\* of sleeps equals the number of rate-limit failures once the sleep after
\* the latest failure has run, the 'too many retries' error is raised only
\* after MAX_RETRIES sleeps, and a successful call or a failure that is not
\* a rate limit is followed by no sleep.
C37_OneSleepPerRateLimit ==
    /\ [](/\ si_pc = "backoff"
               => (LastCallRateLimited
                    /\ Len(si_sleeps) + 1 = NumRateLimited)
          /\ si_pc # "backoff" => Len(si_sleeps) = NumRateLimited
          /\ (SmartInvokeOver /\ Exhausted)
               => (Len(si_sleeps) = MAX_RETRIES
                    /\ NumRateLimited = MAX_RETRIES)
          /\ (SmartInvokeOver /\ ~Exhausted)
               => (~LastCallRateLimited
                    /\ Len(si_sleeps) = Len(si_calls) - 1))
    /\ [][Len(si_sleeps') > Len(si_sleeps)
            => (/\ si_pc = "backoff"
                /\ LastCallRateLimited
                /\ Len(si_sleeps') = Len(si_sleeps) + 1)]_vars

C37_Witness ==
    /\ si_pc = "raised"
    /\ Exhausted
    /\ NumRateLimited = MAX_RETRIES
    /\ Len(si_sleeps) = MAX_RETRIES

\* C5: when the engine fails with a rate-limit error k < MAX_RETRIES times
\* and then succeeds, smart_invoke returns the value of call k+1, and the
\* successful call is the last call it makes.
C5_ReturnsFirstSuccess ==
    \A i \in 1..Len(si_calls) :
        si_calls[i].kind = "ok" =>
            /\ i = Len(si_calls)
            /\ i <= MAX_RETRIES
            /\ \A j \in 1..(i - 1) : RateLimited(si_calls[j])
            /\ si_pc \in {"returned", "idle"}
            /\ si_result.kind = "return"
            /\ si_result.value = si_calls[i].value

C5_Witness ==
    /\ si_pc = "returned"
    /\ Len(si_calls) = MAX_RETRIES
    /\ si_result.value = si_calls[MAX_RETRIES].value
    /\ \A j \in 1..(MAX_RETRIES - 1) : RateLimited(si_calls[j])

\* C6: an error that is not a rate-limit error is the last engine call of
\* the invocation and is raised to the caller as it is; no sleep follows it
\* (the sleeps are those of the rate-limit errors before it), and the retry
\* counter counts the rate-limit errors that were backed off, nothing else.
C6_OtherErrorPropagates ==
    /\ retries = Len(si_sleeps)
    /\ retries <= Cardinality({i \in 1..Len(si_calls) : RateLimited(si_calls[i])})
    /\ \A i \in 1..Len(si_calls) :
          (si_calls[i].kind = "err" /\ ~IsRateLimit(si_calls[i].text)) =>
              /\ i = Len(si_calls)
              /\ si_pc \in {"raised", "idle"}
              /\ si_result.kind = "raise"
              /\ si_result.type = si_calls[i].type
              /\ si_result.text = si_calls[i].text
              /\ Len(si_sleeps) = i - 1
              /\ retries = i - 1

C6_Witness ==
    /\ si_pc = "raised"
    /\ Len(si_calls) >= 3
    /\ si_calls[Len(si_calls)].kind = "err"
    /\ ~IsRateLimit(si_calls[Len(si_calls)].text)
    /\ si_result.text = si_calls[Len(si_calls)].text

TooManyRetriesShown == cli_printed = <<"Unity: ">> \o TooManyRetriesText

WholeSeconds(d) == d \div 10

\* C21: the n-th backoff of a call of smart_invoke (n counted from 0) is
\* base_delay * 2^n seconds plus a jitter of less than one second: the whole
\* seconds of the successive delays are 2, 4, 8, 16, 32, each at least
\* double the one before.
C21_BackoffDoubles ==
    /\ Len(si_sleeps) <= 5
    /\ \A i \in 1..Len(si_sleeps) :
          /\ WholeSeconds(si_sleeps[i]) = <<2, 4, 8, 16, 32>>[i]
          /\ si_sleeps[i] - 10 * WholeSeconds(si_sleeps[i]) \in 0..9
          /\ i > 1 => WholeSeconds(si_sleeps[i]) >= 2 * WholeSeconds(si_sleeps[i - 1])

\* C21 witness: smart_invoke has slept five times, with and without jitter.
C21_Witness ==
    /\ Len(si_sleeps) = 5
    /\ si_sleeps[1] = 20
    /\ si_sleeps[2] = 49
    /\ si_sleeps[5] = 329

(***************************************************************************)
(* Properties of the router                                                *)
(***************************************************************************)

\* The words of the command that process_command handed to try_handle.
CommandWords == Split(Normalize(raw_text))

\* The input matches one of the deterministic patterns of the router.
RouterPattern(ws) ==
    \/ EnableVoiceMatch(ws)
    \/ DisableVoiceMatch(ws)
    \/ HelpMatch(ws)
    \/ WebsiteMatch(ws)
    \/ AppMatch(ws)
    \/ CloseMatch(ws)
    \/ WeatherMatch(ws)
    \/ SearchMatch(ws)
    \/ BookmarkMatch(ws)

\* C1: after process_command on an input that matches a router pattern,
\* GraphAgent.run has not been called, whatever the invoked tool did.
C1_PatternNeverReachesGraph ==
    (d_pc = "done" /\ RouterPattern(CommandWords)) => graph_runs = <<>>

\* C7: one call of try_handle invokes at most one tool, and an input that
\* matches a router pattern is reported as handled.
C7_AtMostOneToolAndHandled ==
    d_pc = "done" =>
        /\ Len(tool_calls) <= 1
        /\ RouterPattern(CommandWords) => handled


\* C24: process_command calls GraphAgent.run at most once, on the sanitized
\* input, and it calls it if and only if the input matches no pattern of
\* the router.
C24_GraphRunIffNoRuleMatched ==
    d_pc = "done" =>
        /\ Len(graph_runs) <= 1
        /\ graph_runs # <<>> => graph_runs[1] = Normalize(raw_text)
        /\ Len(graph_runs) = 1 <=> ~RouterPattern(CommandWords)

\* The open_website tool was asked to open url, and no other tool was run.
OnlyOpenWebsite(url) ==
    /\ Len(tool_calls) = 1
    /\ tool_calls[1].tool = "open_website"
    /\ tool_calls[1].arg = <<url>>

\* C25: on 'open website <url>' (any letter case of the two words, any
\* spacing) with an http(s) url of at most MAX_URL_LENGTH characters, where
\* the open_website tool is registered, the router invokes open_website
\* exactly once with the url in its original case, invokes no other tool
\* and reports the input as handled.
C25_OpenWebsiteOnceAndHandled ==
    (/\ d_pc = "done"
     /\ WebsiteMatch(CommandWords)
     /\ WordLen(CommandWords[3]) <= MAX_URL_LENGTH
     /\ "open_website" \in tools)
        => /\ OnlyOpenWebsite(CommandWords[3])
           /\ handled
           /\ graph_runs = <<>>

\* The similarity get_close_matches asks for: ratio 2M / T of at least 0.75.
WithinThreshold(sub, word) == 8 * Matches(sub, word) >= 3 * Total(sub, word)

\* Exactly the bookmark handler of sub-command sub was invoked, with the
\* words of the input.
OnlyBookmarkHandler(sub) ==
    bookmark_calls = <<[handler |-> sub, parts |-> CommandWords]>>

\* C26: on 'zira bookmark <sub> ...' the input is handled by the router.
\* A <sub> that is one of add, list, jump, remove, clear gets its own
\* handler; the typo 'ad' gets the handler of add, with a notice; a <sub>
\* that is within the threshold of no sub-command ('xyz') gets no handler and
\* the unknown-sub-command message.
C26_BookmarkFuzzyDispatch ==
    (d_pc = "done" /\ BookmarkMatch(CommandWords) /\ Len(CommandWords) >= 3)
        => LET sub == Lower(CommandWords[3])
               known == {BookmarkSubcommands[k] : k \in 1..Len(BookmarkSubcommands)}
           IN /\ handled
              /\ graph_runs = <<>>
              /\ tool_calls = <<>>
              /\ sub \in known
                    => (OnlyBookmarkHandler(sub) /\ printed = <<>>)
              /\ sub = "ad"
                    => (OnlyBookmarkHandler("add") /\ printed = <<"Interpreting">>)
              /\ (\A w \in known : ~WithinThreshold(w, sub))
                    => (bookmark_calls = <<>> /\ printed = <<"Unknown bookmark command">>)
              /\ sub = "xyz" => bookmark_calls = <<>>

\* C26 witness: 'zira bookmark ad' was interpreted as the add sub-command.
C26_Witness ==
    /\ d_pc = "done"
    /\ LowerSeq(CommandWords) = <<"zira", "bookmark", "ad">>
    /\ OnlyBookmarkHandler("add")
    /\ printed = <<"Interpreting">>
    /\ handled

\* C27: process_command leaves the tool registry alone and changes the voice
\* flag only on a toggle command: after an enable command the flag is true,
\* after a disable command it is false, whatever it was before, and the
\* command is handled without a tool or a planning run; after any other
\* input, and between commands, the flag is what it was.
C27_VoiceFlagOnlyByToggle ==
    [][/\ tools' = tools
       /\ search_tool' = search_tool
       /\ d_pc = "done" => voice_enabled' = voice_enabled
       /\ (d_pc = "prompt" /\ d_pc' = "done")
             => LET ws == Split(Normalize(raw_text')) IN
                /\ EnableVoiceMatch(ws)
                      => (voice_enabled' /\ handled'
                            /\ tool_calls' = <<>> /\ graph_runs' = <<>>)
                /\ DisableVoiceMatch(ws)
                      => (~voice_enabled' /\ handled'
                            /\ tool_calls' = <<>> /\ graph_runs' = <<>>)
                /\ (~EnableVoiceMatch(ws) /\ ~DisableVoiceMatch(ws))
                      => voice_enabled' = voice_enabled]_vars

\* C27 witness: an enable command arrived while voice mode was enabled.
C27_Witness ==
    /\ d_pc = "done"
    /\ EnableVoiceMatch(CommandWords)
    /\ printed = <<"Voice mode is already enabled.">>
    /\ voice_enabled
    /\ handled

\* The input has one of the forms the help text of try_handle lists.
HelpForm(ws) ==
    \/ BookmarkMatch(ws)
    \/ /\ Len(ws) >= 3
       /\ Lower(ws[1]) = "zira"
       /\ Lower(ws[2]) \in {"open", "close", "search"}
    \/ /\ Len(ws) >= 4
       /\ Lower(ws[1]) = "zira"
       /\ Lower(ws[2]) = "weather"
       /\ Lower(ws[3]) = "in"
    \/ LowerSeq(ws) \in {<<"enable", "voice", "mode">>, <<"disable", "voice", "mode">>}

\* C28: an input in one of the forms the help text lists is handled by the
\* router and does not reach GraphAgent.run.
C28_HelpFormsAreHandled ==
    (d_pc = "done" /\ HelpForm(CommandWords))
        => (handled /\ graph_runs = <<>>)

\* C30: on 'open <url>' with an http(s) url, where the open_website tool is
\* registered, the router invokes open_website with that url and reports
\* the input as handled.
C30_OpenUrlReachesWebsiteHandler ==
    (/\ d_pc = "done"
     /\ Len(CommandWords) = 2
     /\ Lower(CommandWords[1]) = "open"
     /\ StartsWithHttp(Lower(CommandWords[2]))
     /\ "open_website" \in tools)
        => /\ handled
           /\ \E i \in 1..Len(tool_calls) :
                 /\ tool_calls[i].tool = "open_website"
                 /\ tool_calls[i].arg = <<CommandWords[2]>>

\* The argument the open, close or weather pattern takes from the input
\* has one of the characters ; & | $ ` < >.
UnsafeArgument(ws) ==
    \/ (AppMatch(ws) \/ CloseMatch(ws)) /\ HasShellChar(Rest(ws, 2))
    \/ WeatherMatch(ws) /\ HasShellChar(WeatherLocation(ws))

\* C31: the router never invokes open_application, close_application or
\* get_weather with an argument that has one of the characters
\* ; & | $ ` < >, and an input whose argument for one of them has such a
\* character is answered with an 'invalid' message, reported as handled,
\* and no tool is invoked for it.
C31_UnsafeArgumentRefused ==
    d_pc = "done" =>
        /\ \A i \in 1..Len(tool_calls) :
              tool_calls[i].tool \in {"open_application", "close_application", "get_weather"}
                  => ~HasShellChar(tool_calls[i].arg)
        /\ UnsafeArgument(CommandWords)
              => /\ tool_calls = <<>>
                 /\ handled
                 /\ \E i \in 1..Len(printed) :
                       printed[i] \in {"Invalid application name.", "Invalid location."}

(***************************************************************************)
(* Properties of GraphAgent.run                                            *)
(***************************************************************************)

Occurrences(seq, x) == Cardinality({i \in 1..Len(seq) : seq[i] = x})

RunOver == g_pc = "idle" /\ g_trace # <<>>

RequestsTool(answer) == answer.kind = "response" /\ answer.message.tool_calls # <<>>

\* An engine response with no tool call and no final-answer marker.
Malformed(answer) ==
    /\ answer.kind = "response"
    /\ answer.message.tool_calls = <<>>
    /\ ~StartsWithFinalAnswer(answer.message.content)

EveryAnswerRequestsTool ==
    /\ g_llm # <<>>
    /\ \A i \in 1..Len(g_llm) : RequestsTool(g_llm[i])

IterationLimitExceeded ==
    /\ g_trace # <<>>
    /\ g_trace[Len(g_trace)] = "GraphRecursionError"

\* The nodes the run executed since its last call of the engine.
SinceLastPlanning ==
    LET at == SetMax({i \in 1..Len(g_trace) : g_trace[i] = "LLMPlanning"})
    IN SubSeq(g_trace, at, Len(g_trace))

LastMessage == Messages(g_thread)[Len(Messages(g_thread))]

\* C2: a run in which every engine response requests a tool ends after
\* exactly AGENT_MAX_ITERATIONS plan-then-tool iterations: that many calls of
\* the engine, each followed by one tool execution.
C2_ExactlyMaxIterations ==
    (RunOver /\ EveryAnswerRequestsTool)
        => /\ Len(g_llm) = AGENT_MAX_ITERATIONS
           /\ Occurrences(g_trace, "ToolExecutor") = AGENT_MAX_ITERATIONS

\* C3: a run that exceeds the iteration limit ends in the Respond node, and
\* the last message it emits comes from Respond and differs from the message
\* emitted for any other failure of the run.
C3_LimitEndsInRespondWithOwnMessage ==
    (RunOver /\ IterationLimitExceeded)
        => /\ g_trace[Len(g_trace) - 1] = "Respond"
           /\ g_emitted # <<>>
           /\ g_emitted[Len(g_emitted)].kind = "respond"
           /\ g_emitted[Len(g_emitted)].text # RunErrorMessage

\* C8: no exception escapes GraphAgent.run, and a run that is over has
\* emitted a message to the user, whether the engine failed, a tool failed
\* or the iteration limit was exceeded.
C8_RunNeverRaises ==
    /\ g_result # "escaped"
    /\ (g_pc = "idle" /\ g_thread # "none")
           => (g_result = "returned" /\ g_emitted # <<>>)

\* C8 witness: a run in which a tool failed has been ended by the iteration
\* limit and has returned after the error message.
C8_Witness ==
    /\ RunOver
    /\ IterationLimitExceeded
    /\ g_result = "returned"
    /\ g_emitted[Len(g_emitted)] = Emitted("run_error", RunErrorMessage)
    /\ \E i \in 1..Len(Messages(g_thread)) :
         /\ Messages(g_thread)[i].type = "tool"
         /\ Messages(g_thread)[i].content = <<"Error: tool failed">>

\* C9: after a malformed engine response (no tool call, no final-answer
\* marker) the run makes no further engine call and executes no tool: it
\* goes through ParseAction, which appends the synthetic assistant message,
\* to Respond, which emits that message.
C9_MalformedGoesToRespond ==
    \A i \in 1..Len(g_llm) :
        Malformed(g_llm[i]) =>
            /\ i = Len(g_llm)
            /\ \/ g_pc = "ParseAction" /\ SinceLastPlanning = <<"LLMPlanning">>
               \/ /\ g_pc \in {"Respond", "idle"}
                  /\ LastMessage = AIMessage(SyntheticParseError, <<>>)
                  /\ checkpoint[g_thread].last_parse_status = "respond_with_error"
                  /\ \/ /\ g_pc = "Respond"
                        /\ SinceLastPlanning = <<"LLMPlanning", "ParseAction">>
                     \/ /\ g_pc = "idle"
                        /\ SubSeq(SinceLastPlanning, 1, 3) =
                               <<"LLMPlanning", "ParseAction", "Respond">>
                        /\ \E k \in 1..Len(g_emitted) :
                             g_emitted[k] = Emitted("respond", SyntheticParseError)

\* C9 witness: a run that had executed a tool got a malformed response and
\* is over.
C9_Witness ==
    /\ RunOver
    /\ Malformed(g_llm[Len(g_llm)])
    /\ Occurrences(g_trace, "ToolExecutor") = 1
    /\ g_emitted = <<Emitted("respond", SyntheticParseError)>>

\* C10: a response with tool calls is routed to ParseAction, from there to
\* ToolExecutor and from there back to LLMPlanning, also when its text starts
\* with the final-answer marker.
C10_ToolCallsBeforeMarker ==
    [][ /\ (g_pc = "LLMPlanning" /\ g_llm' # g_llm /\ RequestsTool(g_llm'[Len(g_llm')]))
            => g_pc' = "ParseAction"
        /\ (g_pc = "ParseAction" /\ g_llm # <<>> /\ RequestsTool(g_llm[Len(g_llm)]))
            => /\ g_pc' = "ToolExecutor"
               /\ checkpoint'[g_thread].last_parse_status = "tool_call_found"
        /\ (g_pc = "ToolExecutor")
            => /\ g_pc' = "LLMPlanning"
               /\ Len(checkpoint'[g_thread].messages) = Len(checkpoint[g_thread].messages) + 1
               /\ checkpoint'[g_thread].messages[Len(checkpoint'[g_thread].messages)].type = "tool"
      ]_vars

\* C10 witness: the response carried a tool call and a text starting with
\* the marker, the tool ran, and the run is back at LLMPlanning.
C10_Witness ==
    /\ g_pc = "LLMPlanning"
    /\ g_llm # <<>>
    /\ RequestsTool(g_llm[Len(g_llm)])
    /\ StartsWithFinalAnswer(g_llm[Len(g_llm)].message.content)
    /\ g_trace[Len(g_trace)] = "ToolExecutor"
    /\ LastMessage.type = "tool"

\* The planning loop classified the answer as a final answer.
ClassifiedFinal(answer) ==
    /\ answer.kind = "response"
    /\ answer.message.tool_calls = <<>>
    /\ StartsWithFinalAnswer(answer.message.content)

BeginsWithMarker(t) == t # <<>> /\ Head(t) \in MarkerTokens

\* C11: when the planning loop classified the engine's response as a final
\* answer (marker at the start, leading whitespace accepted), the text that
\* Respond gives to the user does not begin with the marker.
C11_MarkerStripped ==
    (RunOver /\ g_llm # <<>> /\ ClassifiedFinal(g_llm[Len(g_llm)]))
        => \A k \in 1..Len(g_emitted) :
               g_emitted[k].kind = "respond" => ~BeginsWithMarker(g_emitted[k].text)

HasNonPrintable(t) == \E i \in 1..Len(t) : t[i] \in NonPrintableTokens

RequestsCall(msgs, j, id) ==
    /\ msgs[j].type = "ai"
    /\ \E c \in 1..Len(msgs[j].tool_calls) : msgs[j].tool_calls[c].id = id

\* C14: in every session history each tool message comes after an assistant
\* message that requested a tool call with the same call identifier, and the
\* ToolExecutor node is entered only when the last message is an assistant
\* message with tool calls.
C14_ToolMessageAnswersCall ==
    /\ \A t \in ThreadIds :
         \A i \in 1..Len(Messages(t)) :
             Messages(t)[i].type = "tool"
                 => \E j \in 1..(i - 1) :
                        RequestsCall(Messages(t), j, Messages(t)[i].tool_call_id)
    /\ g_pc = "ToolExecutor"
           => (LastMessage.type = "ai" /\ LastMessage.tool_calls # <<>>)

\* C14 witness: the second tool execution of a run has appended its tool
\* message.
C14_Witness ==
    /\ g_pc = "LLMPlanning"
    /\ Occurrences(g_trace, "ToolExecutor") = 2
    /\ LastMessage.type = "tool"
    /\ RequestsCall(Messages(g_thread), Len(Messages(g_thread)) - 1, LastMessage.tool_call_id)

\* The tool messages of a history whose text is content.
ToolMessagesWith(msgs, content) ==
    {i \in 1..Len(msgs) : msgs[i].type = "tool" /\ msgs[i].content = content}

EndedInError ==
    /\ g_trace # <<>>
    /\ g_trace[Len(g_trace)] \in {"GraphRecursionError", "ValidationError"}

\* C23: Respond is terminal. After the Respond node of a run no node runs
\* any more, so no engine call and no tool execution follows it (only the
\* report of the recursion limit can), every engine call of the run is a
\* step of LLMPlanning, and a run of the graph that is over without an
\* error has executed Respond exactly once, as its last node.
C23_RespondIsTerminal ==
    /\ \A i \in 1..Len(g_trace) :
          g_trace[i] = "Respond"
              => \A j \in (i + 1)..Len(g_trace) : g_trace[j] = "GraphRecursionError"
    /\ Len(g_llm) = Occurrences(g_trace, "LLMPlanning")
    /\ g_pc = "Respond" => Occurrences(g_trace, "Respond") = 0
    /\ (RunOver /\ ~EndedInError)
          => /\ Occurrences(g_trace, "Respond") = 1
             /\ g_trace[Len(g_trace)] = "Respond"
             /\ g_result = "returned"

\* C23 witness: a run that executed a tool and called the engine twice is
\* over, and Respond was its last node.
C23_Witness ==
    /\ RunOver
    /\ g_trace[Len(g_trace)] = "Respond"
    /\ Occurrences(g_trace, "ToolExecutor") = 1
    /\ Len(g_llm) = 2
    /\ g_result = "returned"

\* C29: GraphAgent.run on an input with a character that is not printable
\* turns the input away before the graph starts: the step of run() leaves
\* every session history as it was, calls neither the engine nor a tool,
\* shows the invalid-input message and returns; no node of the graph ever
\* works on such an input.
C29_NonPrintableInputRejected ==
    [][/\ g_pc' # "idle" => ~HasNonPrintable(g_input')
       /\ (g_pc = "idle" /\ HasNonPrintable(g_input'))
             => /\ checkpoint' = checkpoint
                /\ g_pc' = "idle"
                /\ g_trace' = <<>>
                /\ g_llm' = <<>>
                /\ g_emitted' = <<Emitted("invalid_input", InvalidInputMessage)>>
                /\ g_result' = "returned"]_vars

\* C29 witness: an input with a non-printable character was turned away in
\* a session that already has a history.
C29_Witness ==
    /\ g_pc = "idle"
    /\ HasNonPrintable(g_input)
    /\ g_emitted = <<Emitted("invalid_input", InvalidInputMessage)>>
    /\ g_trace = <<>>
    /\ g_llm = <<>>
    /\ Messages(g_thread) # <<>>

\* The message is an assistant message with at least one tool call.
HasToolCall(m) == m.type = "ai" /\ m.tool_calls # <<>>

\* C32: the step of ParseAction sets last_parse_status from the message it
\* parses and the routing follows that status: 'tool_call_found' and on to
\* ToolExecutor exactly when the last message is an assistant message with
\* a tool call, 'respond_with_error' and on to Respond otherwise, whatever
\* status the session had before the step.
C32_RoutingFollowsParsedMessage ==
    [][(g_pc = "ParseAction" /\ g_trace' = Append(g_trace, "ParseAction"))
          => LET old == checkpoint[g_thread].messages
                 status == checkpoint'[g_thread].last_parse_status
             IN IF old # <<>> /\ HasToolCall(old[Len(old)])
                THEN status = "tool_call_found" /\ g_pc' = "ToolExecutor"
                ELSE status = "respond_with_error" /\ g_pc' = "Respond"]_vars

\* C32 witness: a run whose earlier cycle found a tool call (and executed
\* the tool) parsed a message without tool call in a later cycle and was
\* sent to Respond.
C32_Witness ==
    /\ g_pc = "Respond"
    /\ g_trace # <<>>
    /\ g_trace[Len(g_trace)] = "ParseAction"
    /\ Occurrences(g_trace, "ToolExecutor") >= 1
    /\ checkpoint[g_thread].last_parse_status = "respond_with_error"
    /\ ~HasToolCall(Messages(g_thread)[Len(Messages(g_thread)) - 1])

IsPrefix(a, b) == Len(a) <= Len(b) /\ SubSeq(b, 1, Len(a)) = a

\* C15: the history of a session is append-only. No step of a run removes,
\* reorders or rewrites a message, also not the step that ends the run with
\* an error or at the iteration limit; the run appends the user message
\* before its first engine call, each engine response when it arrives, and
\* the tool messages in the order of the calls they answer.
C15_HistoryAppendOnly ==
    [][ /\ \A t \in ThreadIds :
              IsPrefix(checkpoint[t].messages, checkpoint'[t].messages)
        /\ (g_pc = "idle" /\ g_pc' # "idle")
              => /\ g_llm' = <<>>
                 /\ checkpoint'[g_thread'].messages =
                        Append(checkpoint[g_thread'].messages, HumanMessage(g_input'))
        /\ (g_llm' # g_llm /\ g_llm' # <<>> /\ g_llm'[Len(g_llm')].kind = "response")
              => checkpoint'[g_thread].messages =
                     Append(checkpoint[g_thread].messages, g_llm'[Len(g_llm')].message)
        /\ (g_llm' # g_llm /\ g_llm' # <<>> /\ g_llm'[Len(g_llm')].kind = "error")
              => checkpoint' = checkpoint
        /\ (g_pc = "ToolExecutor")
              => LET old == checkpoint[g_thread].messages
                     new == checkpoint'[g_thread].messages
                     calls == old[Len(old)].tool_calls
                 IN /\ Len(new) = Len(old) + Len(calls)
                    /\ \A c \in 1..Len(calls) :
                           /\ new[Len(old) + c].type = "tool"
                           /\ new[Len(old) + c].tool_call_id = calls[c].id
        /\ (g_pc' = "idle" /\ g_pc \notin {"idle", "Respond"})
              => checkpoint' = checkpoint
      ]_vars

\* C15 witness: a session whose first run ended with an engine failure has
\* had a second run ended by the iteration limit; both user messages and the
\* messages of the second run are in the history.
C15_Witness ==
    /\ RunOver
    /\ IterationLimitExceeded
    /\ Len(Messages(g_thread)) = 8
    /\ Messages(g_thread)[1].type = "human"
    /\ Messages(g_thread)[2].type = "human"
    /\ Messages(g_thread)[8].type = "tool"

(***************************************************************************)
(* The sanitization of GraphAgent._respond_to_user as a function of the    *)
(* text, applied to a text and then to its own output                      *)
(***************************************************************************)

MaxText == 3

TextTokens == MarkerTokens \cup WhitespaceTokens \cup NonPrintableTokens \cup {"a"}

Texts == UNION { [1..n -> TextTokens] : n \in 0..MaxText }

\* cleaned = re.sub(r"(?i)^Final Answer:\s*", "", content).strip()
\* if contains_control_chars(cleaned): cleaned = "[Response contained ...]"
Sanitize(t) ==
    LET cleaned == Strip(StripMarker(t))
    IN IF ContainsControlChars(cleaned) THEN SanitizedNotice ELSE cleaned

SanitizeOnce ==
    /\ sn_pc = "input"
    /\ sn_once' = Sanitize(sn_text)
    /\ sn_pc' = "once"
    /\ UNCHANGED <<sn_text, sn_twice, notSanitizeVars>>

SanitizeAgain ==
    /\ sn_pc = "once"
    /\ sn_twice' = Sanitize(sn_once)
    /\ sn_pc' = "twice"
    /\ UNCHANGED <<sn_text, sn_once, notSanitizeVars>>

InitSanitize ==
    /\ sn_pc = "input"
    /\ sn_text \in Texts
    /\ sn_once = <<>>
    /\ sn_twice = <<>>
    /\ InvokeQuiet
    /\ RouterQuiet
    /\ GraphQuiet
    /\ SessionsQuiet
    /\ LaterQuiet

NextSanitize == SanitizeOnce \/ SanitizeAgain

SpecSanitize == InitSanitize /\ [][NextSanitize]_vars

\* C12: the sanitization of Respond is idempotent: applied to its own
\* output it yields that output again, for every text.
C12_SanitizeIdempotent ==
    sn_pc = "twice" => sn_twice = sn_once

(***************************************************************************)
(* GraphAgent.run called by several tasks at once. Each run loads the      *)
(* latest checkpoint of its thread_id when it starts, works on the state   *)
(* it holds, and writes a checkpoint under its thread_id after each step.  *)
(* Neither process_command nor run takes a lock or tests for a run in      *)
(* progress.                                                               *)
(***************************************************************************)

\* config={"configurable": {"thread_id": thread_id}}: the key of the checkpoint
StoreKeyMut(thread_id) == "default_user"

StoreKey(thread_id) == thread_id

RunState(run) ==
    [messages |-> run.messages, last_parse_status |-> run.last_parse_status]

\* The store after the run has written its checkpoint.
PutCheckpoint(run) == [cc_store EXCEPT ![StoreKey(run.thread)] = RunState(run)]

\* The engine's answers in the concurrent runs: a final answer, a text
\* without marker, a tool call.
SessionResponses(msgs) ==
    { m \in LLMResponses(msgs) :
        \/ m.tool_calls = <<>> /\ m.content \in {FinalText, PlainText}
        \/ /\ m.tool_calls # <<>>
           /\ m.content = EmptyText
           /\ m.tool_calls[1].name = "local_factsheet" }

\* The run of caller r ends with exception exc; the step writes nothing.
RaiseInSession(r, exc) ==
    /\ cc_run' = [cc_run EXCEPT ![r].pc = "done",
                                ![r].result = IF CaughtByRun(exc)
                                              THEN "returned" ELSE "escaped"]
    /\ UNCHANGED cc_store

\* The run of caller r has executed a node and holds state next.
StepInSession(r, next) ==
    /\ cc_run' = [cc_run EXCEPT ![r] = next]
    /\ cc_store' = PutCheckpoint(next)

\* Caller r awaits GraphAgent.run(user_input, thread_id).
SessionRun(r) ==
    /\ cc_run[r].pc = "idle"
    /\ \E user_input \in UserInputs, thread_id \in SessionIds :
         IF RejectsInput(user_input)
         THEN /\ cc_run' = [cc_run EXCEPT ![r].pc = "done",
                                          ![r].thread = thread_id,
                                          ![r].result = "returned"]
              /\ UNCHANGED cc_store
         ELSE LET loaded == cc_store[StoreKey(thread_id)] IN
              StepInSession(r,
                  [pc |-> "UserInputProcessor",
                   thread |-> thread_id,
                   messages |-> AddMessages(loaded.messages, <<HumanMessage(user_input)>>),
                   last_parse_status |-> loaded.last_parse_status,
                   step |-> 0,
                   result |-> "none"])
    /\ UNCHANGED notSessionVars

SessionUserInputProcessor(r) ==
    /\ cc_run[r].pc = "UserInputProcessor"
    /\ WithinRecursionLimit(cc_run[r].step)
    /\ StepInSession(r, [cc_run[r] EXCEPT !.pc = "LLMPlanning", !.step = @ + 1])
    /\ UNCHANGED notSessionVars

SessionLLMPlanning(r) ==
    /\ cc_run[r].pc = "LLMPlanning"
    /\ WithinRecursionLimit(cc_run[r].step)
    /\ \/ \E response \in SessionResponses(cc_run[r].messages) :
            LET msgs == AddMessages(cc_run[r].messages, <<response>>) IN
            StepInSession(r,
                [cc_run[r] EXCEPT
                    !.messages = msgs,
                    !.step = @ + 1,
                    !.pc = IF IsFinalAnswer(msgs) = "respond"
                           THEN "Respond" ELSE "ParseAction"])
       \/ \E e \in LLMErrors : RaiseInSession(r, "ValidationError")
    /\ UNCHANGED notSessionVars

SessionParseAction(r) ==
    /\ cc_run[r].pc = "ParseAction"
    /\ WithinRecursionLimit(cc_run[r].step)
    /\ LET parsed == ParseAndRouteAction(RunState(cc_run[r])) IN
       StepInSession(r,
           [cc_run[r] EXCEPT
               !.messages = parsed.messages,
               !.last_parse_status = parsed.last_parse_status,
               !.step = @ + 1,
               !.pc = ParseActionEdge(parsed)])
    /\ UNCHANGED notSessionVars

SessionToolExecutor(r) ==
    /\ cc_run[r].pc = "ToolExecutor"
    /\ WithinRecursionLimit(cc_run[r].step)
    /\ LET msgs == cc_run[r].messages
           calls == msgs[Len(msgs)].tool_calls
       IN \E outs \in [1..Len(calls) -> ToolOutcomes] :
            StepInSession(r,
                [cc_run[r] EXCEPT
                    !.messages = AddMessages(msgs,
                        [i \in 1..Len(calls) |-> ToolNodeMessage(calls[i], outs[i])]),
                    !.step = @ + 1,
                    !.pc = ToolExecutorEdge])
    /\ UNCHANGED notSessionVars

SessionRespond(r) ==
    /\ cc_run[r].pc = "Respond"
    /\ WithinRecursionLimit(cc_run[r].step)
    /\ \/ StepInSession(r,
              [cc_run[r] EXCEPT
                  !.pc = IF RespondEdge = "END" THEN "done" ELSE RespondEdge,
                  !.step = @ + 1,
                  !.result = IF RespondEdge = "END" THEN "returned" ELSE @])
       \/ /\ ~WithinRecursionLimit(cc_run[r].step + 1)
          /\ cc_run' = [cc_run EXCEPT ![r].pc = "done", ![r].step = @ + 1,
                            ![r].result = IF CaughtByRun("GraphRecursionError")
                                          THEN "returned" ELSE "escaped"]
          /\ cc_store' = PutCheckpoint(cc_run[r])
    /\ UNCHANGED notSessionVars

SessionRecursionLimit(r) ==
    /\ cc_run[r].pc \in Nodes
    /\ ~WithinRecursionLimit(cc_run[r].step)
    /\ RaiseInSession(r, "GraphRecursionError")
    /\ UNCHANGED notSessionVars

InitSessions ==
    /\ cc_run = [r \in Callers |-> IdleRun]
    /\ cc_store = [t \in SessionIds |-> EmptyState]
    /\ InvokeQuiet
    /\ RouterQuiet
    /\ GraphQuiet
    /\ SanitizeQuiet
    /\ LaterQuiet

NextSessions ==
    \E r \in Callers :
        \/ SessionRun(r)
        \/ SessionUserInputProcessor(r)
        \/ SessionLLMPlanning(r)
        \/ SessionParseAction(r)
        \/ SessionToolExecutor(r)
        \/ SessionRespond(r)
        \/ SessionRecursionLimit(r)

SpecSessions == InitSessions /\ [][NextSessions]_vars

(***************************************************************************)
(* Properties of concurrent runs                                           *)
(***************************************************************************)

InProgress(r) == cc_run[r].pc \in Nodes

\* C16: while a run is in progress for a session id, a second input for the
\* same session id is queued or rejected: no two runs are in progress on one
\* session at the same time, so their appends never interleave.
C16_OneRunPerSession ==
    \A r1, r2 \in Callers :
        (r1 # r2 /\ InProgress(r1) /\ InProgress(r2))
            => cc_run[r1].thread # cc_run[r2].thread

\* C17: sessions with different identifiers are independent: a step changes
\* the stored history and parse status of a session only if it is a step of
\* a run on that session.
C17_SessionsIndependent ==
    [][ \A t \in SessionIds :
            cc_store'[t] # cc_store[t]
                => \E r \in Callers : cc_run'[r] # cc_run[r] /\ cc_run'[r].thread = t
      ]_vars

\* C17 witness: runs on two different sessions are in progress at the same
\* time, each after an engine call, and each session has its own history.
C17_Witness ==
    /\ cc_run[1].thread = "default_user"
    /\ cc_run[2].thread = "other_user"
    /\ cc_run[1].pc = "ToolExecutor"
    /\ cc_run[2].pc = "Respond"
    /\ cc_store["default_user"] = RunState(cc_run[1])
    /\ cc_store["other_user"] = RunState(cc_run[2])
    /\ cc_store["default_user"] # cc_store["other_user"]

(***************************************************************************)
(* Properties of GraphAgent.run when the engine is rate-limited            *)
(***************************************************************************)

\* What _handle_llm_error returns for TooManyRequests.
RateLimitMessage ==
    <<"Error: Gemini is being rate-limited. Please try again in a few seconds.">>

RateLimitFailure(answer) == answer.kind = "error" /\ answer.error = "TooManyRequests"

\* The run is over and its last engine call raised the rate-limit error.
EndedByRateLimit ==
    /\ RunOver
    /\ g_llm # <<>>
    /\ RateLimitFailure(g_llm[Len(g_llm)])

\* The number of engine calls at the end of the run that raised the
\* rate-limit error one after the other.
TrailingRateLimits ==
    Cardinality({ i \in 1..Len(g_llm) :
                    \A j \in i..Len(g_llm) : RateLimitFailure(g_llm[j]) })

\* C18: when the engine raises a rate-limit error on a planning call, the
\* run ends with the rate-limit message as what the user receives, and after
\* that call it executes no tool and calls the engine no more.
C18_RateLimitMessageShown ==
    EndedByRateLimit
        => /\ g_emitted # <<>>
           /\ g_emitted[Len(g_emitted)].text = RateLimitMessage
           /\ Occurrences(SinceLastPlanning, "ToolExecutor") = 0

\* C19: a planning call goes through the retry wrapper: before a run
\* reports a failure for a rate-limited planning call, the call has been
\* tried MAX_RETRIES times.
C19_PlanningCallRetried ==
    (EndedByRateLimit /\ g_emitted # <<>>)
        => TrailingRateLimits = MAX_RETRIES

(***************************************************************************)
(* BookmarkCommands: the add, remove and clear commands on the bookmarks   *)
(* file. A string is the sequence of its characters; the file is the set   *)
(* of its alias / path entries. The file operations succeed.               *)
(***************************************************************************)

MaxOps == 3

\* str.lstrip(chars), str.rstrip(chars), str.strip(chars)
RECURSIVE LStripChars(_, _)
LStripChars(s, chars) ==
    IF s # <<>> /\ Head(s) \in chars THEN LStripChars(Tail(s), chars) ELSE s

RECURSIVE RStripChars(_, _)
RStripChars(s, chars) ==
    IF s # <<>> /\ s[Len(s)] \in chars
    THEN RStripChars(SubSeq(s, 1, Len(s) - 1), chars) ELSE s

StripChars(s, chars) == RStripChars(LStripChars(s, chars), chars)

\* raw.strip().strip("<>").strip()
StripAngle(raw) ==
    StripChars(StripChars(StripChars(raw, {" "}), {"<", ">"}), {" "})

\* " ".join(words)
RECURSIVE Join(_)
Join(words) ==
    IF words = <<>> THEN <<>>
    ELSE IF Len(words) = 1 THEN words[1]
    ELSE words[1] \o <<" ">> \o Join(Tail(words))

\* The words after 'zira bookmark <sub>' that the commands are given.
AliasTokens == { <<"a">>, <<"<", "a", ">">>, <<"b">>, <<"<", ">">> }

PathLists == { <<>>, <<<<"p">>>>, <<<<"<", "q", ">">>>> }

AddInputs == {<<>>} \cup {<<t>> \o p : t \in AliasTokens, p \in PathLists}

RemoveInputs == {<<>>} \cup {<<t>> : t \in AliasTokens}

ClearInputs == RemoveInputs \cup {<< <<"a">>, <<"b">> >>}

\* parts = command_text.split() of 'zira bookmark <sub> <args>'
BookmarkParts(sub, args) ==
    <<<<"z", "i", "r", "a">>, <<"b", "o", "o", "k", "m", "a", "r", "k">>, sub>> \o args

\* alias in bookmarks
HasAlias(bookmarks, alias) == \E e \in bookmarks : e.alias = alias

\* bookmarks.pop(alias)
Pop(bookmarks, alias) == {e \in bookmarks : e.alias # alias}

\* BookmarkCommands.handle_add: the bookmarks file after the command
HandleAddMut(parts, bookmarks) ==
    IF Len(parts) < 5 THEN bookmarks
    ELSE LET alias == StripAngle(parts[4])
             path == StripAngle(Join(SubSeq(parts, 5, Len(parts))))
         IN IF alias = <<>> \/ path = <<>> THEN bookmarks
            ELSE Pop(bookmarks, alias) \cup {[alias |-> alias, path |-> path]}

HandleAdd(parts, bookmarks) ==
    IF Len(parts) < 5 THEN bookmarks
    ELSE LET alias == StripAngle(parts[4])
             path == StripAngle(Join(SubSeq(parts, 5, Len(parts))))
         IN IF alias = <<>> THEN bookmarks
            ELSE IF \E i \in 1..Len(alias) : alias[i] = " " THEN bookmarks
            ELSE IF path = <<>> THEN bookmarks
            ELSE IF HasAlias(bookmarks, alias) THEN bookmarks
            ELSE bookmarks \cup {[alias |-> alias, path |-> path]}

\* BookmarkCommands.handle_remove
HandleRemove(parts, bookmarks) ==
    IF Len(parts) < 4 THEN bookmarks
    ELSE LET alias == StripAngle(parts[4]) IN
         IF alias = <<>> THEN bookmarks
         ELSE IF ~HasAlias(bookmarks, alias) THEN bookmarks
         ELSE Pop(bookmarks, alias)

\* BookmarkCommands.handle_clear
HandleClear(parts, bookmarks) ==
    IF Len(parts) <= 3 THEN {}
    ELSE LET alias == StripAngle(Join(SubSeq(parts, 4, Len(parts)))) IN
         IF alias = <<>> THEN {}
         ELSE IF ~HasAlias(bookmarks, alias) THEN bookmarks
         ELSE Pop(bookmarks, alias)

\* 'zira bookmark add ...'
BookmarkAdd ==
    /\ Len(bm_log) < MaxOps
    /\ \E args \in AddInputs :
         LET parts == BookmarkParts(<<"a", "d", "d">>, args) IN
         /\ bm_store' = HandleAdd(parts, bm_store)
         /\ bm_log' = Append(bm_log, [op |-> "add", parts |-> parts])
    /\ UNCHANGED notBookmarkVars

\* 'zira bookmark remove ...'
BookmarkRemove ==
    /\ Len(bm_log) < MaxOps
    /\ \E args \in RemoveInputs :
         LET parts == BookmarkParts(<<"r", "e", "m", "o", "v", "e">>, args) IN
         /\ bm_store' = HandleRemove(parts, bm_store)
         /\ bm_log' = Append(bm_log, [op |-> "remove", parts |-> parts])
    /\ UNCHANGED notBookmarkVars

\* 'zira bookmark clear ...'
BookmarkClear ==
    /\ Len(bm_log) < MaxOps
    /\ \E args \in ClearInputs :
         LET parts == BookmarkParts(<<"c", "l", "e", "a", "r">>, args) IN
         /\ bm_store' = HandleClear(parts, bm_store)
         /\ bm_log' = Append(bm_log, [op |-> "clear", parts |-> parts])
    /\ UNCHANGED notBookmarkVars

InitBookmarks ==
    BookmarksQuiet /\ EarlierQuiet /\ StorageQuiet /\ VoiceQuiet /\ CliQuiet

NextBookmarks == BookmarkAdd \/ BookmarkRemove \/ BookmarkClear

SpecBookmarks == InitBookmarks /\ [][NextBookmarks]_vars

\* The alias a logged command names; empty when it names none.
OpAlias(e) ==
    IF e.op = "clear" THEN StripAngle(Join(SubSeq(e.parts, 4, Len(e.parts))))
    ELSE IF Len(e.parts) >= 4 THEN StripAngle(e.parts[4])
    ELSE <<>>

\* The path a logged add command gives.
OpPath(e) == StripAngle(Join(SubSeq(e.parts, 5, Len(e.parts))))

\* The logged command is an add of alias x with a path.
AddsAlias(e, x) ==
    e.op = "add" /\ x # <<>> /\ OpAlias(e) = x /\ OpPath(e) # <<>>

\* The logged command removes or clears alias x: a remove or clear of x, or
\* a clear that names no alias, which clears every alias.
DropsAlias(e, x) ==
    \/ e.op \in {"remove", "clear"} /\ x # <<>> /\ OpAlias(e) = x
    \/ e.op = "clear" /\ OpAlias(e) = <<>>

\* The adds of alias x that no later command removed or cleared.
StandingAdds(x) ==
    {i \in 1..Len(bm_log) :
        /\ AddsAlias(bm_log[i], x)
        /\ \A j \in (i + 1)..Len(bm_log) : ~DropsAlias(bm_log[j], x)}

C33_AddExistingKept ==
    /\ Len(bm_log) = 2
    /\ AddsAlias(bm_log[1], <<"a">>) /\ OpPath(bm_log[1]) = <<"p">>
    /\ AddsAlias(bm_log[2], <<"a">>) /\ OpPath(bm_log[2]) = <<"q">>
    /\ bm_store = {[alias |-> <<"a">>, path |-> <<"p">>]}

(***************************************************************************)
(* BookmarkStorage and handle_add_logic, called by tasks of one event      *)
(* loop. The loop runs one task at a time, and a task keeps the loop until *)
(* it awaits something that is not ready: speak() is such a point. In      *)
(* load_bookmarks and save_bookmarks the lock is taken and released within *)
(* the call, with no await while it is held, so no task ever finds it      *)
(* taken.                                                                  *)
(***************************************************************************)

MaxAdds == 3

\* What handle_add_logic is called with: the kind of its arguments (too few
\* words, an alias that is empty or does not match alias_pattern, or a valid
\* alias and path), and whether the path exists.
AddArguments ==
    [kind : {"usage", "bad_alias", "ok"}, alias : {"a", "b"}, path : {"p"},
     exists : BOOLEAN]

\* async with self._file_lock: whether the task is suspended at the
\* acquisition of a lock that is free. asyncio.Lock.acquire returns at once.
SuspendsAtLockMut == TRUE

SuspendsAtLock == FALSE

\* The event loop lets task t take its next step.
CanRun(t) == bs_running \in {0, t}

\* A task calls handle_add_logic: the checks of its arguments, up to the
\* warning for a path that does not exist.
StorageAddStart(t) ==
    /\ bs_task[t].pc = "idle"
    /\ CanRun(t)
    /\ bs_count < MaxAdds
    /\ bs_count' = bs_count + 1
    /\ \E arg \in AddArguments :
         IF arg.kind # "ok"
         THEN /\ bs_task' = [bs_task EXCEPT ![t] = [IdleTask EXCEPT !.pc = "speak"]]
              /\ bs_running' = 0
         ELSE /\ bs_task' = [bs_task EXCEPT ![t] =
                    [pc |-> IF arg.exists THEN "load" ELSE "warning",
                     alias |-> arg.alias, path |-> arg.path, bookmarks |-> {}]]
              /\ bs_running' = IF arg.exists THEN t ELSE 0
    /\ UNCHANGED <<bs_file, bs_added, notStorageVars>>

\* await speak(warning_msg) is over.
StorageWarned(t) ==
    /\ bs_task[t].pc = "warning"
    /\ CanRun(t)
    /\ bs_task' = [bs_task EXCEPT ![t].pc = "load"]
    /\ bs_running' = t
    /\ UNCHANGED <<bs_file, bs_added, bs_count, notStorageVars>>

\* bookmarks = await bookmark_storage.load_bookmarks()
StorageLoad(t) ==
    /\ bs_task[t].pc = "load"
    /\ CanRun(t)
    /\ bs_task' = [bs_task EXCEPT ![t].pc = "loaded", ![t].bookmarks = bs_file]
    /\ bs_running' = IF SuspendsAtLock THEN 0 ELSE t
    /\ UNCHANGED <<bs_file, bs_added, bs_count, notStorageVars>>

\* if alias in bookmarks: ... return True  /  bookmarks[alias] = path
StorageCheck(t) ==
    /\ bs_task[t].pc = "loaded"
    /\ CanRun(t)
    /\ IF HasAlias(bs_task[t].bookmarks, bs_task[t].alias)
       THEN /\ bs_task' = [bs_task EXCEPT ![t].pc = "speak"]
            /\ bs_running' = 0
       ELSE /\ bs_task' = [bs_task EXCEPT
                  ![t].pc = "save",
                  ![t].bookmarks = @ \cup {[alias |-> bs_task[t].alias,
                                            path |-> bs_task[t].path]}]
            /\ bs_running' = IF SuspendsAtLock THEN 0 ELSE t
    /\ UNCHANGED <<bs_file, bs_added, bs_count, notStorageVars>>

\* await bookmark_storage.save_bookmarks(bookmarks): the file is replaced,
\* or the write fails and the file stays; then the task awaits speak().
StorageSave(t) ==
    /\ bs_task[t].pc = "save"
    /\ CanRun(t)
    /\ \/ /\ bs_file' = bs_task[t].bookmarks
          /\ bs_added' = bs_added \cup {bs_task[t].alias}
       \/ UNCHANGED <<bs_file, bs_added>>
    /\ bs_task' = [bs_task EXCEPT ![t].pc = "speak"]
    /\ bs_running' = 0
    /\ UNCHANGED <<bs_count, notStorageVars>>

\* The last await speak(...) is over and handle_add_logic returns True.
StorageReturn(t) ==
    /\ bs_task[t].pc = "speak"
    /\ CanRun(t)
    /\ bs_task' = [bs_task EXCEPT ![t] = IdleTask]
    /\ bs_running' = 0
    /\ UNCHANGED <<bs_file, bs_added, bs_count, notStorageVars>>

InitStorage ==
    StorageQuiet /\ EarlierQuiet /\ BookmarksQuiet /\ VoiceQuiet /\ CliQuiet

NextStorage ==
    \E t \in StorageTasks :
        \/ StorageAddStart(t)
        \/ StorageWarned(t)
        \/ StorageLoad(t)
        \/ StorageCheck(t)
        \/ StorageSave(t)
        \/ StorageReturn(t)

SpecStorage == InitStorage /\ [][NextStorage]_vars

MaxPassed == 2

\* What transcribe_from_push_to_talk can give: an exception, None, or a text.
Utterances ==
    { <<"a">>, <<" ", "a", " ">>, <<"b">>, <<" ">>, <<>>, <<"a", "NUL">> }

Transcriptions ==
    {[kind |-> "stt_error", text |-> <<>>], [kind |-> "silence", text |-> <<>>]}
        \cup {[kind |-> "text", text |-> u] : u \in Utterances}

\* if not voice_flag_ref.get("enabled", False): break
DisabledMeanwhileMut(enabled) == FALSE

DisabledMeanwhile(enabled) == ~enabled

\* except Exception as loop_err: ... voice_flag_ref["enabled"] = False
LoopError ==
    /\ vl_enabled' = FALSE
    /\ vl_pc' = "failed"
    /\ UNCHANGED vl_passed

\* while voice_flag_ref.get("enabled", False)
VoiceWhileTest ==
    /\ vl_pc = "while"
    /\ Len(vl_passed) < MaxPassed
    /\ vl_pc' = IF vl_enabled THEN "transcribing" ELSE "exited"
    /\ UNCHANGED <<vl_enabled, vl_heard, vl_passed, notVoiceVars>>

\* await transcribe_from_push_to_talk(...) is over: the body of the loop up
\* to the call of process_command_fn. fault: a statement of the body raises
\* an exception that only the outer handler catches.
VoiceTranscribed ==
    /\ vl_pc = "transcribing"
    /\ \E heard \in Transcriptions, fault \in BOOLEAN :
         /\ vl_heard' = heard
         /\ IF heard.kind = "stt_error"
            THEN vl_pc' = "while" /\ UNCHANGED <<vl_enabled, vl_passed>>
            ELSE IF DisabledMeanwhile(vl_enabled)
            THEN vl_pc' = "exited" /\ UNCHANGED <<vl_enabled, vl_passed>>
            ELSE IF heard.kind = "silence"
            THEN vl_pc' = "while" /\ UNCHANGED <<vl_enabled, vl_passed>>
            ELSE IF fault
            THEN LoopError
            ELSE IF Strip(heard.text) = <<>>
            THEN vl_pc' = "while" /\ UNCHANGED <<vl_enabled, vl_passed>>
            ELSE IF ContainsControlChars(Strip(heard.text))
            THEN vl_pc' = "while" /\ UNCHANGED <<vl_enabled, vl_passed>>
            ELSE /\ vl_passed' = Append(vl_passed, Strip(heard.text))
                 /\ vl_pc' = "processing"
                 /\ UNCHANGED vl_enabled
    /\ UNCHANGED notVoiceVars

\* await process_command_fn(voice_command) is over, with its fallback; the
\* command may have changed the voice flag. fault as above.
VoiceProcessed ==
    /\ vl_pc = "processing"
    /\ \E fault \in BOOLEAN :
         IF fault THEN LoopError
         ELSE vl_pc' = "while" /\ UNCHANGED <<vl_enabled, vl_passed>>
    /\ UNCHANGED <<vl_heard, notVoiceVars>>

\* The command being processed, or another task of the assistant, enables
\* or disables the voice mode while the listener awaits.
VoiceFlagChanged ==
    /\ vl_pc \in {"transcribing", "processing"}
    /\ vl_enabled' = ~vl_enabled
    /\ UNCHANGED <<vl_pc, vl_heard, vl_passed, notVoiceVars>>

InitVoice ==
    /\ vl_pc = "while"
    /\ vl_enabled \in BOOLEAN
    /\ vl_heard = NothingHeard
    /\ vl_passed = <<>>
    /\ EarlierQuiet
    /\ BookmarksQuiet
    /\ StorageQuiet
    /\ CliQuiet

NextVoice ==
    \/ VoiceWhileTest
    \/ VoiceTranscribed
    \/ VoiceProcessed
    \/ VoiceFlagChanged

SpecVoice == InitVoice /\ [][NextVoice]_vars

\* The step is the end of a transcription that gave an utterance.
UtteranceCompletes ==
    /\ vl_pc = "transcribing"
    /\ vl_pc' # "transcribing"
    /\ vl_heard'.kind = "text"

MaxInputs == 2

GREETINGS == {"hi", "hello", "hey", "hiya", "hola"}

FACTSHEET_COMMAND == "talk to factsheet"

\* What the user types at the prompt.
CliInputs ==
    {"exit", " QUIT ", "hi", "talk to factsheet", " Talk To Factsheet", "my id was taken"}

\* input("You> ").strip().lower()
CliLow(user_input) ==
    CASE user_input = " QUIT " -> "quit"
      [] user_input = " Talk To Factsheet" -> "talk to factsheet"
      [] OTHER -> user_input

\* What the call of smart_invoke and the parsing of its output come to: a
\* case, a clarification request, output that is JSON without the fields
\* of a case, output that is not JSON, the exhaustion error, another
\* exception.
InvokeResults ==
    {"case", "clarification", "not_a_case", "not_json", "RuntimeError", "Exception"}

\* if low == FACTSHEET_COMMAND: if reflection_agent and fact_sheet_retriever
EntersFactsheetModeMut(low, reflection, retriever) == low = FACTSHEET_COMMAND

EntersFactsheetMode(low, reflection, retriever) ==
    low = FACTSHEET_COMMAND /\ reflection /\ retriever

\* What one pass of the loop did.
CliEvent(user_input, before, after, invoked, logged, asked) ==
    [input |-> user_input, before |-> before, after |-> after,
     invoked |-> invoked, logged |-> logged, asked |-> asked]

\* One pass of the loop of run_cli. docs: the retriever finds documents;
\* fault: the retriever or the reflection agent raises an exception, which
\* run_cli does not catch.
RunCliInput ==
    /\ rc_pc = "input"
    /\ Len(rc_events) < MaxInputs
    /\ \E user_input \in CliInputs, result \in InvokeResults, docs \in BOOLEAN,
          fault \in BOOLEAN :
         LET low == CliLow(user_input)
             mode == using_factsheet_mode
             raises == /\ fault
                       /\ mode
                       /\ low # FACTSHEET_COMMAND
                       /\ reflection_agent
                       /\ fact_sheet_retriever
             event(after, invoked, logged, asked) ==
                 Append(rc_events, CliEvent(user_input, mode, after, invoked, logged, asked))
         IN
         IF low \in {"exit", "quit"}
         THEN /\ rc_pc' = "ended"
              /\ rc_events' = event(mode, FALSE, FALSE, FALSE)
              /\ UNCHANGED using_factsheet_mode
         ELSE /\ rc_pc' = IF raises THEN "raised" ELSE "input"
              /\ IF low \in GREETINGS /\ ~mode
                 THEN /\ rc_events' = event(mode, FALSE, FALSE, FALSE)
                      /\ UNCHANGED using_factsheet_mode
                 ELSE IF low = FACTSHEET_COMMAND
                 THEN LET after == IF EntersFactsheetMode(low, reflection_agent,
                                                          fact_sheet_retriever)
                                   THEN TRUE ELSE mode
                      IN /\ using_factsheet_mode' = after
                         /\ rc_events' = event(after, FALSE, FALSE, FALSE)
                 ELSE IF mode
                 THEN /\ rc_events' = event(mode, FALSE, FALSE,
                              reflection_agent /\ fact_sheet_retriever /\ docs /\ ~raises)
                      /\ UNCHANGED using_factsheet_mode
                 ELSE /\ rc_events' = event(mode, TRUE, result = "case", FALSE)
                      /\ UNCHANGED using_factsheet_mode
    /\ UNCHANGED <<reflection_agent, fact_sheet_retriever, notCliVars>>

InitCli ==
    /\ rc_pc = "input"
    /\ reflection_agent \in BOOLEAN
    /\ fact_sheet_retriever \in BOOLEAN
    /\ using_factsheet_mode = FALSE
    /\ rc_events = <<>>
    /\ EarlierQuiet
    /\ BookmarksQuiet
    /\ StorageQuiet
    /\ VoiceQuiet

NextCli == RunCliInput

SpecCli == InitCli /\ [][NextCli]_vars

\* The mode run_cli was in before its i-th input.
ModeBefore(i) == IF i = 1 THEN FALSE ELSE rc_events[i - 1].after

\* C36: the fact-sheet mode is off at the start; an input turns it on only
\* when it is the 'talk to factsheet' command and the reflection agent and
\* the retriever are both present; no input turns it off; an input given in
\* fact-sheet mode reaches neither smart_invoke nor log_case; and 'exit' and
\* 'quit' end the loop in either mode, the only inputs that do.
C36_FactsheetModeIsSticky ==
    /\ using_factsheet_mode = ModeBefore(Len(rc_events) + 1)
    /\ \A i \in 1..Len(rc_events) :
          LET e == rc_events[i] IN
          /\ e.before = ModeBefore(i)
          /\ e.before => e.after
          /\ (~e.before /\ e.after)
                => /\ CliLow(e.input) = "talk to factsheet"
                   /\ reflection_agent
                   /\ fact_sheet_retriever
          /\ e.before => (~e.invoked /\ ~e.logged)
          /\ CliLow(e.input) \in {"exit", "quit"}
                => (i = Len(rc_events) /\ rc_pc = "ended" /\ ~e.invoked)
    /\ rc_pc = "ended"
          => (rc_events # <<>>
                /\ CliLow(rc_events[Len(rc_events)].input) \in {"exit", "quit"})

\* C36 witness: the command entered the fact-sheet mode and the next input,
\* a question, was answered from the fact sheet without a call of
\* smart_invoke.
C36_Witness ==
    /\ Len(rc_events) = 2
    /\ ~rc_events[1].before /\ rc_events[1].after
    /\ rc_events[2].input = "my id was taken"
    /\ rc_events[2].asked
    /\ ~rc_events[2].invoked
    /\ using_factsheet_mode

====
